---- MODULE Spec2Model ----
(***************************************************************************)
(* Model of the query-resolution pipeline of backend/main.py and           *)
(* backend/services/query_service.py.                                      *)
(*                                                                         *)
(* Text is modelled as a sequence of lexemes.  Whitespace is explicit      *)
(* (SP is one blank, NL one newline), so that the regular expressions of   *)
(* the source (\s+, \s*$, ^, strip, split) can be translated position by   *)
(* position.  The concatenation of the lexemes of a text is the Python     *)
(* string it stands for, with two stand-ins: "~~~" is the three-backquote  *)
(* fence and ESCNL is the two characters backslash-n that repr() writes    *)
(* for a newline.                                                          *)
(***************************************************************************)
EXTENDS Integers, Sequences, FiniteSets, TLC

\* ---------------------------------------------------------------- lexemes
SP == " "
NL == "\n"
ESCNL == "\\n"
FENCE == "~~~"
FENCESQL == "~~~sql"
SEMI == ";"
COMMA == ","

IsWs(t) == t \in {SP, NL}

\* str.upper() on one lexeme.
UpperTok(t) ==
  CASE t = "select" -> "SELECT"
    [] t = "from" -> "FROM"
    [] t = "limit" -> "LIMIT"
    [] t = "drop" -> "DROP"
    [] t = "table" -> "TABLE"
    [] t = "delete" -> "DELETE"
    [] t = "create" -> "CREATE"
    [] t = "truncated" -> "TRUNCATED"
    [] t = "unlimited" -> "UNLIMITED"
    [] t = "as" -> "AS"
    [] t = "name" -> "NAME"
    [] t = "ovr" -> "OVR"
    [] t = "players" -> "PLAYERS"
    [] t = "best" -> "BEST"
    [] t = "rating" -> "RATING"
    [] t = "footballers" -> "FOOTBALLERS"
    [] t = "stats" -> "STATS"
    [] t = "~~~sql" -> "~~~SQL"
    [] t = "SQLQuery:" -> "SQLQUERY:"
    [] t = "SQLResult:" -> "SQLRESULT:"
    [] t = "sqlresult:" -> "SQLRESULT:"
    [] t = "No" -> "NO"
    [] t = "here" -> "HERE"
    [] t = "Top" -> "TOP"
    [] t = "list" -> "LIST"
    [] t = "[('Messi', 93), ('Ronaldo', 92)]" -> "[('MESSI', 93), ('RONALDO', 92)]"
    [] t = "[('Kane', 90)]" -> "[('KANE', 90)]"
    [] OTHER -> t

\* kw occurs inside the (upper-cased) lexeme T: "KW" in T.
InTok(kw, T) ==
  \/ T = kw
  \/ <<kw, T>> \in {<<"LIMIT", "UNLIMITED">>, <<"TRUNCATE", "TRUNCATED">>,
                    <<"~~~", "~~~SQL">>}

\* "KW" in text.upper(), for a keyword that is one lexeme.
ContainsKw(s, kw) == \E i \in 1..Len(s) : InTok(kw, UpperTok(s[i]))

\* The lexeme equals the keyword, whatever its letter case (re.IGNORECASE).
IsKw(t, kw) == UpperTok(t) = kw

Min(S) == CHOOSE i \in S : \A j \in S : i <= j
Max(S) == CHOOSE i \in S : \A j \in S : i >= j

Slice(s, a, b) == IF a > b THEN <<>> ELSE SubSeq(s, a, b)

\* str.strip(): leading and trailing whitespace removed.
RECURSIVE LStrip(_)
LStrip(s) == IF s # <<>> /\ IsWs(Head(s)) THEN LStrip(Tail(s)) ELSE s

RECURSIVE RStrip(_)
RStrip(s) ==
  IF s # <<>> /\ IsWs(s[Len(s)]) THEN RStrip(SubSeq(s, 1, Len(s) - 1)) ELSE s

Strip(s) == RStrip(LStrip(s))

\* str.rstrip(';'): every trailing terminator removed.
RECURSIVE RStripSemi(_)
RStripSemi(s) ==
  IF s # <<>> /\ s[Len(s)] = SEMI THEN RStripSemi(SubSeq(s, 1, Len(s) - 1)) ELSE s

\* re.sub(r'\s+', ' ', s): every run of whitespace becomes one blank.
RECURSIVE NormalizeWs(_)
NormalizeWs(s) ==
  IF s = <<>> THEN <<>>
  ELSE IF IsWs(Head(s)) THEN <<SP>> \o NormalizeWs(LStrip(s))
  ELSE <<Head(s)>> \o NormalizeWs(Tail(s))

\* ---------------------------------------------------------- clean_sql_query
\* re.sub(r'```sql\s*', '', s, flags=re.IGNORECASE)
RECURSIVE DropFenceSql(_)
DropFenceSql(s) ==
  IF s = <<>> THEN <<>>
  ELSE IF IsKw(Head(s), "~~~SQL") THEN DropFenceSql(LStrip(Tail(s)))
  ELSE <<Head(s)>> \o DropFenceSql(Tail(s))

\* re.sub(r'```\s*$', '', s, flags=re.MULTILINE): a fence, the whitespace after
\* it, then the end of the text or of a line.  \s* is greedy: when the
\* whitespace run reaches the end of the text all of it goes; otherwise the
\* match ends just before the last newline of the run; with no newline in
\* the run there is no match and the fence stays for the next substitution.
RECURSIVE DropFenceEol(_)
DropFenceEol(s) ==
  IF s = <<>> THEN <<>>
  ELSE IF Head(s) # FENCE THEN <<Head(s)>> \o DropFenceEol(Tail(s))
  ELSE LET rest == Tail(s)
           after == LStrip(rest)
           run == Len(rest) - Len(after)
           nls == {i \in 1..run : rest[i] = NL}
       IN IF after = <<>> THEN <<>>
          ELSE IF nls # {} THEN DropFenceEol(Slice(rest, Max(nls), Len(rest)))
          ELSE <<FENCE>> \o DropFenceEol(rest)

\* re.sub(r'```', '', s)
DropFence(s) == SelectSeq(s, LAMBDA t : t # FENCE)

\* re.sub(r'^SQLQuery:\s*', '', s, flags=re.IGNORECASE | re.MULTILINE);
\* bol: the position is the start of the text or follows a newline.
RECURSIVE DropLabel(_, _)
DropLabel(s, bol) ==
  IF s = <<>> THEN <<>>
  ELSE IF bol /\ IsKw(Head(s), "SQLQUERY:")
       THEN LET rest == Tail(s)
                after == LStrip(rest)
                run == Len(rest) - Len(after)
            IN DropLabel(after, IF run = 0 THEN FALSE ELSE rest[run] = NL)
       ELSE <<Head(s)>> \o DropLabel(Tail(s), Head(s) = NL)

\* Positions where SELECT\s+.*?FROM\s+ can start: a SELECT lexeme followed by
\* whitespace, with a later FROM lexeme followed by whitespace.
FromAfter(s, i) ==
  {j \in (i + 2)..(Len(s) - 1) : IsKw(s[j], "FROM") /\ IsWs(s[j + 1])}

SelectStarts(s) ==
  {i \in 1..(Len(s) - 1) :
     IsKw(s[i], "SELECT") /\ IsWs(s[i + 1]) /\ FromAfter(s, i) # {}}

\* First position after the whitespace that follows the FROM at j.
AfterFromWs(s, j) == Len(s) - Len(LStrip(Slice(s, j + 1, Len(s)))) + 1

\* r'(SELECT\s+.*?FROM\s+.*?)(?:;|\s*$)' with IGNORECASE | DOTALL: the lazy
\* tail of group 1 ends before the first terminator or before the trailing
\* whitespace of the text.
CleanEnd(s, from) ==
  Min({p \in from..(Len(s) + 1) :
         \/ p = Len(s) + 1
         \/ s[p] = SEMI
         \/ \A q \in p..Len(s) : IsWs(s[q])})

CleanSqlQuery(sql_text) ==
  IF sql_text = <<>> THEN <<>>
  ELSE LET s == DropLabel(DropFence(DropFenceEol(DropFenceSql(sql_text))), TRUE)
       IN IF SelectStarts(s) # {}
          THEN LET i == Min(SelectStarts(s))
                   j == Min(FromAfter(s, i))
                   p == CleanEnd(s, AfterFromWs(s, j))
               IN NormalizeWs(Strip(Slice(s, i, p - 1)))
          ELSE Strip(s)

\* ------------------------------------------------------- generation result
\* A result bundle is the dict the chain returns: the keys "result" and
\* "intermediate_steps" may each be missing.  A trace entry is a text
\* (kind "text") or a dict (kind "dict") that may hold the key 'sql_cmd'.
TextStep(s) == [kind |-> "text", text |-> s, hasCmd |-> FALSE]
CmdStep(s) == [kind |-> "dict", text |-> s, hasCmd |-> TRUE]
EmptyDictStep == [kind |-> "dict", text |-> <<>>, hasCmd |-> FALSE]

Bundle(result, steps) ==
  [hasResult |-> TRUE, result |-> result, hasSteps |-> TRUE, steps |-> steps]

\* result_dict.get("intermediate_steps", [])
StepsOf(b) == IF b.hasSteps THEN b.steps ELSE <<>>

\* repr() of a str: the newline is written as backslash-n, and the quote is
\* the double quote when the text holds a single quote.
HasQuote(t) == t \in {"[('Messi', 93), ('Ronaldo', 92)]", "[('Kane', 90)]"}

Repr(s) ==
  LET q == IF \E i \in 1..Len(s) : HasQuote(s[i]) THEN "\"" ELSE "'"
  IN <<q>> \o [i \in 1..Len(s) |-> IF s[i] = NL THEN ESCNL ELSE s[i]] \o <<q>>

ReprStep(st) ==
  IF st.kind = "text" THEN Repr(st.text)
  ELSE IF st.hasCmd THEN <<"{", "'sql_cmd':", SP>> \o Repr(st.text) \o <<"}">>
  ELSE <<"{", "}">>

RECURSIVE ReprSteps(_)
ReprSteps(steps) ==
  IF steps = <<>> THEN <<>>
  ELSE IF Len(steps) = 1 THEN ReprStep(steps[1])
  ELSE ReprStep(steps[1]) \o <<COMMA, SP>> \o ReprSteps(Tail(steps))

\* str(result_dict)
Serialize(b) ==
  <<"{">>
  \o (IF b.hasResult THEN <<"'result':", SP>> \o Repr(b.result) ELSE <<>>)
  \o (IF b.hasResult /\ b.hasSteps THEN <<COMMA, SP>> ELSE <<>>)
  \o (IF b.hasSteps
      THEN <<"'intermediate_steps':", SP, "[">> \o ReprSteps(b.steps) \o <<"]">>
      ELSE <<>>)
  \o <<"}">>

\* ---------------------------------------------------------- extract_sql_query
\* cleaned_sql.upper().startswith("SELECT")
StartsWithSelect(s) == s # <<>> /\ IsKw(s[1], "SELECT")

\* Variant: a text entry is taken without the SELECT / FROM test.
StepCandidateAnyText(st) ==
  IF st.kind = "text" THEN CleanSqlQuery(st.text)
  ELSE IF st.hasCmd THEN CleanSqlQuery(st.text) ELSE <<>>

\* One pass over the trace, in order: a text entry that holds SELECT and FROM
\* and cleans to a SELECT statement, or a dict entry with a non-empty sql_cmd.
StepCandidate(st) ==
  IF st.kind = "text"
  THEN IF ContainsKw(st.text, "SELECT") /\ ContainsKw(st.text, "FROM")
          /\ StartsWithSelect(CleanSqlQuery(st.text))
       THEN CleanSqlQuery(st.text) ELSE <<>>
  ELSE IF st.hasCmd THEN CleanSqlQuery(st.text) ELSE <<>>

RECURSIVE FromSteps(_)
FromSteps(steps) ==
  IF steps = <<>> THEN <<>>
  ELSE IF StepCandidate(Head(steps)) # <<>>
       THEN RStripSemi(StepCandidate(Head(steps)))
       ELSE FromSteps(Tail(steps))

\* Index of the first non-whitespace lexeme at or after i (\s*).
SkipWs(s, i) == Len(s) - Len(LStrip(Slice(s, i, Len(s)))) + 1

IsFenceTok(t) == InTok("~~~", UpperTok(t))

\* r'```sql\s*(SELECT.*?)```' with IGNORECASE | DOTALL: group 1.
MarkdownStarts(s) ==
  {i \in 1..Len(s) :
     /\ IsKw(s[i], "~~~SQL")
     /\ SkipWs(s, i + 1) <= Len(s)
     /\ IsKw(s[SkipWs(s, i + 1)], "SELECT")
     /\ \E k \in (SkipWs(s, i + 1) + 1)..Len(s) : IsFenceTok(s[k])}

MarkdownGroup(s) ==
  LET i == Min(MarkdownStarts(s))
      m == SkipWs(s, i + 1)
      k == Min({k \in (m + 1)..Len(s) : IsFenceTok(s[k])})
  IN Slice(s, m, k - 1)

\* r'SQLQuery:\s*(SELECT.*?)(?:SQLResult:|$)' with IGNORECASE | DOTALL: group 1.
LabelStarts(s) ==
  {i \in 1..Len(s) :
     /\ IsKw(s[i], "SQLQUERY:")
     /\ SkipWs(s, i + 1) <= Len(s)
     /\ IsKw(s[SkipWs(s, i + 1)], "SELECT")}

LabelGroup(s) ==
  LET i == Min(LabelStarts(s))
      m == SkipWs(s, i + 1)
      k == Min({k \in (m + 1)..(Len(s) + 1) :
                  k = Len(s) + 1 \/ IsKw(s[k], "SQLRESULT:")})
  IN Slice(s, m, k - 1)

\* r'(SELECT\s+.*?FROM\s+.*?)(?=\n|$|SQLResult:|```)' with IGNORECASE | DOTALL.
GenericGroup(s) ==
  LET i == Min(SelectStarts(s))
      j == Min(FromAfter(s, i))
      p == Min({p \in AfterFromWs(s, j)..(Len(s) + 1) :
                  \/ p = Len(s) + 1
                  \/ s[p] = NL
                  \/ IsKw(s[p], "SQLRESULT:")
                  \/ IsFenceTok(s[p])})
  IN Slice(s, i, p - 1)

\* Variant: the labelled prefix is looked for before the fenced block.
FromSerializedLabelFirst(s) ==
  IF LabelStarts(s) # {} /\ CleanSqlQuery(LabelGroup(s)) # <<>>
  THEN RStripSemi(CleanSqlQuery(LabelGroup(s)))
  ELSE IF MarkdownStarts(s) # {} /\ CleanSqlQuery(MarkdownGroup(s)) # <<>>
  THEN RStripSemi(CleanSqlQuery(MarkdownGroup(s)))
  ELSE IF SelectStarts(s) # {} /\ CleanSqlQuery(GenericGroup(s)) # <<>>
  THEN RStripSemi(CleanSqlQuery(GenericGroup(s)))
  ELSE <<>>

\* The three scans of str(result_dict), in order.
FromSerialized(s) ==
  IF MarkdownStarts(s) # {} /\ CleanSqlQuery(MarkdownGroup(s)) # <<>>
  THEN RStripSemi(CleanSqlQuery(MarkdownGroup(s)))
  ELSE IF LabelStarts(s) # {} /\ CleanSqlQuery(LabelGroup(s)) # <<>>
  THEN RStripSemi(CleanSqlQuery(LabelGroup(s)))
  ELSE IF SelectStarts(s) # {} /\ CleanSqlQuery(GenericGroup(s)) # <<>>
  THEN RStripSemi(CleanSqlQuery(GenericGroup(s)))
  ELSE <<>>

ExtractSqlQuery(b) ==
  IF FromSteps(StepsOf(b)) # <<>> THEN FromSteps(StepsOf(b))
  ELSE FromSerialized(Serialize(b))

\* ------------------------------------------------------ apply_alias_mapping
\* ALIASES in iteration order; every phrase is one word or two words
\* separated by exactly one blank.
ALIASES ==
  << <<<<"footballers">>, "players">>,
     <<<<"soccer", SP, "players">>, "players">>,
     <<<<"fifa", SP, "players">>, "players">>,
     <<<<"overall">>, "ovr">>,
     <<<<"overall", SP, "rating">>, "ovr">>,
     <<<<"rating">>, "ovr">>,
     <<<<"pace">>, "pac">>,
     <<<<"shooting">>, "sho">>,
     <<<<"passing">>, "pas">>,
     <<<<"dribbling">>, "dri">>,
     <<<<"physical">>, "phy">>,
     <<<<"position", SP, "name">>, "position">>,
     <<<<"team", SP, "name">>, "team">>,
     <<<<"club">>, "team">>,
     <<<<"nationality">>, "nation">>,
     <<<<"country">>, "nation">>,
     <<<<"league", SP, "name">>, "league">> >>

\* str.lower() on one lexeme, for the lexemes an alias phrase can meet.
LowerTok(t) ==
  CASE t = "Footballers" -> "footballers"
    [] t = "RATING" -> "rating"
    [] t = "Rating" -> "rating"
    [] t = "OVERALL" -> "overall"
    [] t = "AS" -> "as"
    [] t = "As" -> "as"
    [] OTHER -> t

\* Lexemes that begin and end with a non-word character: next to them a word
\* has a \b boundary.
IsWordTok(t) == t \notin {SP, NL, COMMA, SEMI, "?", ".", "'", "\"", "*"}

\* rf"\b{re.escape(alias)}\b" matches at position i, IGNORECASE.
AliasAt(s, i, phrase) ==
  /\ i + Len(phrase) - 1 <= Len(s)
  /\ \A k \in 1..Len(phrase) : LowerTok(s[i + k - 1]) = phrase[k]
  /\ (i = 1 \/ ~IsWordTok(s[i - 1]))
  /\ (i + Len(phrase) > Len(s) \/ ~IsWordTok(s[i + Len(phrase)]))

\* re.sub of one alias over the text, left to right.
RECURSIVE SubAlias(_, _, _, _)
SubAlias(s, i, phrase, actual) ==
  IF i > Len(s) THEN <<>>
  ELSE IF AliasAt(s, i, phrase)
       THEN <<actual>> \o SubAlias(s, i + Len(phrase), phrase, actual)
       ELSE <<s[i]>> \o SubAlias(s, i + 1, phrase, actual)

RECURSIVE ApplyAliasesFrom(_, _)
ApplyAliasesFrom(s, k) ==
  IF k > Len(ALIASES) THEN s
  ELSE ApplyAliasesFrom(SubAlias(s, 1, ALIASES[k][1], ALIASES[k][2]), k + 1)

ApplyAliasMapping(text) == ApplyAliasesFrom(text, 1)

\* ------------------------------------------------- build_schema_aware_prompt
\* "gpt-4" in current_model.lower()
IsGpt4(model) == model \in {"gpt-4o", "gpt-4o-mini"}

\* The prompt is the concatenation, in this order, of the question, the schema
\* section, the fixed dataset description and instruction block, and the
\* model-specific instruction (present for a gpt-4 model only).
BuildSchemaAwarePrompt(question, schema_text, current_model) ==
  [question |-> question,
   schema |-> schema_text,
   description |-> "DATASET_DESCRIPTION",
   instruction |-> "Only write a valid SQL SELECT query",
   model_specific |-> IF IsGpt4(current_model)
                      THEN "Return ONLY the SQL query" ELSE ""]

\* ------------------------------------------------------- ast.literal_eval
\* The Python literals of the model, each one lexeme: two lists of tuples, the
\* empty list and an integer.  Every other text is no literal (literal_eval
\* raises), among them the repr of a row with a Decimal.
\* The rows of the long list literal: more than the row cap of handle_query.
ManyRows == 21

\* The long list literal, "[(1,), (2,), ..., (ManyRows,)]".
ManyRowsLiteral == "[(1,), (2,), ...]"

RowsOfLiteral(t) ==
  CASE t = "[('Messi', 93), ('Ronaldo', 92)]" -> <<<<"Messi", 93>>, <<"Ronaldo", 92>>>>
    [] t = "[('Kane', 90)]" -> <<<<"Kane", 90>>>>
    [] t = "[('Salah', 89)]" -> <<<<"Salah", 89>>>>
    [] t = ManyRowsLiteral -> [k \in 1..ManyRows |-> <<k>>]
    [] OTHER -> <<>>

LiteralKind(t) ==
  CASE t \in {"[('Messi', 93), ('Ronaldo', 92)]", "[('Kane', 90)]",
              "[('Salah', 89)]", "[]", ManyRowsLiteral} -> "list"
    [] t \in {"3", "20"} -> "int"
    [] OTHER -> "error"

\* ast.literal_eval(text): kind "error" stands for the exception.
LiteralEval(s) ==
  IF Len(Strip(s)) = 1 /\ LiteralKind(Strip(s)[1]) # "error"
  THEN [kind |-> LiteralKind(Strip(s)[1]), rows |-> RowsOfLiteral(Strip(s)[1])]
  ELSE [kind |-> "error", rows |-> <<>>]

NoValue == [kind |-> "none", rows |-> <<>>]
EmptyList == [kind |-> "list", rows |-> <<>>]

\* step.startswith('[') and step.endswith(']')
Bracketed(s) ==
  /\ s # <<>>
  /\ s[1] \in {"[", "[]", "[('Messi', 93), ('Ronaldo', 92)]", "[('Kane', 90)]",
               "[('Salah', 89)]", "[(Decimal('9.5'),)]", ManyRowsLiteral}
  /\ s[Len(s)] \in {"]", "[]", "[('Messi', 93), ('Ronaldo', 92)]", "[('Kane', 90)]",
                    "[('Salah', 89)]", "[(Decimal('9.5'),)]", ManyRowsLiteral}

\* step.split("SQLResult:")[-1]: the label is matched with its letter case.
AfterResultLabel(s) ==
  Slice(s, Max({i \in 1..Len(s) : s[i] = "SQLResult:"}) + 1, Len(s))

\* What one trace entry gives extract_raw_results: the value it returns, or
\* NoValue when the loop goes on to the next entry.
StepResult(st) ==
  IF st.kind # "text" THEN NoValue
  ELSE IF Bracketed(st.text) /\ LiteralEval(st.text).kind # "error"
  THEN LiteralEval(st.text)
  ELSE IF (\E i \in 1..Len(st.text) : st.text[i] = "SQLResult:")
          /\ LiteralEval(AfterResultLabel(st.text)).kind # "error"
  THEN LiteralEval(AfterResultLabel(st.text))
  ELSE NoValue

RECURSIVE TraceResult(_)
TraceResult(steps) ==
  IF steps = <<>> THEN NoValue
  ELSE IF StepResult(Head(steps)) # NoValue THEN StepResult(Head(steps))
  ELSE TraceResult(Tail(steps))

\* What get_db().run(sql_query) can do: raise, or return the text of the rows.
DbOutcomes ==
  {[raised |-> TRUE, text |-> <<>>],
   [raised |-> FALSE, text |-> <<>>],
   [raised |-> FALSE, text |-> <<"[('Salah', 89)]">>],
   [raised |-> FALSE, text |-> <<"[(Decimal('9.5'),)]">>],
   [raised |-> FALSE, text |-> <<ManyRowsLiteral>>]}

\* The try block of extract_raw_results: every exception gives [].
DirectResult(db) ==
  IF db.raised THEN EmptyList
  ELSE IF db.text = <<>> THEN EmptyList
  ELSE IF LiteralEval(db.text).kind = "error" THEN EmptyList
  ELSE LiteralEval(db.text)

\* A variant that runs the statement whatever the trace holds.
RunsDirectlyAlways(b, sql_query) == sql_query # <<>>

\* The trace is read first; the statement is run only when the trace gives
\* nothing and the statement is not empty.
RunsDirectly(b, sql_query) == TraceResult(StepsOf(b)) = NoValue /\ sql_query # <<>>

ExtractRawResults(b, sql_query, db) ==
  IF RunsDirectly(b, sql_query) THEN DirectResult(db)
  ELSE IF TraceResult(StepsOf(b)) # NoValue THEN TraceResult(StepsOf(b))
  ELSE EmptyList

\* ------------------------------------------------------ extract_column_names
DefaultColumns ==
  <<<<"rank">>, <<"name">>, <<"ovr">>, <<"position">>, <<"nation">>, <<"team">>>>

\* Start of the whitespace run that ends right before the lexeme at j.
WsRunStart(s, j) == Len(RStrip(Slice(s, 1, j - 1))) + 1

\* r'SELECT\s+(.*?)\s+FROM' with IGNORECASE | DOTALL, for the SELECT at i:
\* the FROM lexemes that can close the match.  Each needs whitespace before
\* it; the one right after the whitespace that follows SELECT needs two
\* whitespace lexemes, one for each \s+.
ProjectionFroms(s, i) ==
  {j \in (i + 2)..Len(s) :
     /\ IsKw(s[j], "FROM")
     /\ IsWs(s[j - 1])
     /\ (WsRunStart(s, j) = i + 1 => j - 1 > i + 1)}

ProjectionStarts(s) ==
  {i \in 1..(Len(s) - 1) :
     IsKw(s[i], "SELECT") /\ IsWs(s[i + 1]) /\ ProjectionFroms(s, i) # {}}

\* match.group(1).strip()
SelectPart(s) ==
  LET i == Min(ProjectionStarts(s))
      j == Min(ProjectionFroms(s, i))
  IN Strip(Slice(s, i + 1, WsRunStart(s, j) - 1))

\* str.split(','): the texts between the commas.
RECURSIVE SplitComma(_)
SplitComma(s) ==
  IF \A i \in 1..Len(s) : s[i] # COMMA THEN <<s>>
  ELSE LET k == Min({i \in 1..Len(s) : s[i] = COMMA})
       IN <<Slice(s, 1, k - 1)>> \o SplitComma(Slice(s, k + 1, Len(s)))

\* str.strip('"\''): quote characters removed at both ends.
IsQuoteTok(t) == t \in {"'", "\""}

RECURSIVE StripQuotes(_)
StripQuotes(s) ==
  IF s # <<>> /\ IsQuoteTok(Head(s)) THEN StripQuotes(Tail(s))
  ELSE IF s # <<>> /\ IsQuoteTok(s[Len(s)]) THEN StripQuotes(SubSeq(s, 1, Len(s) - 1))
  ELSE s

\* ' as ' in col.lower()
HasAsKeyword(col) ==
  \E k \in 1..(Len(col) - 2) :
    col[k] = SP /\ LowerTok(col[k + 1]) = "as" /\ col[k + 2] = SP

\* col.split(' as ')[-1]: the separator is matched in lower case only, left
\* to right and without overlap.
RECURSIVE AfterLastAs(_)
AfterLastAs(col) ==
  LET hits == {k \in 1..(Len(col) - 2) :
                 col[k] = SP /\ col[k + 1] = "as" /\ col[k + 2] = SP}
  IN IF hits = {} THEN col
     ELSE AfterLastAs(Slice(col, Min(hits) + 3, Len(col)))

\* col.split('.')[-1]
AfterLastDot(col) ==
  LET dots == {k \in 1..Len(col) : col[k] = "."}
  IN IF dots = {} THEN col ELSE Slice(col, Max(dots) + 1, Len(col))

ColumnName(item) ==
  LET c1 == StripQuotes(Strip(item))
      c2 == IF HasAsKeyword(c1) THEN Strip(AfterLastAs(c1)) ELSE c1
  IN AfterLastDot(c2)

\* Variant: no default for the bare * projection.
ExtractColumnNamesNoStar(sql_query) ==
  IF sql_query = <<>> THEN DefaultColumns
  ELSE IF ProjectionStarts(sql_query) = {} THEN DefaultColumns
  ELSE LET items == SplitComma(SelectPart(sql_query))
       IN [k \in 1..Len(items) |-> ColumnName(items[k])]

ExtractColumnNames(sql_query) ==
  IF sql_query = <<>> THEN DefaultColumns
  ELSE IF ProjectionStarts(sql_query) = {} THEN DefaultColumns
  ELSE IF SelectPart(sql_query) = <<"*">> THEN DefaultColumns
  ELSE LET items == SplitComma(SelectPart(sql_query))
       IN [k \in 1..Len(items) |-> ColumnName(items[k])]

\* ----------------------------------------------------------- format_raw_rows
\* Variant: a repeated name keeps its first value.
RowDictFirstWins(row, column_names) ==
  LET n == IF Len(row) < Len(column_names) THEN Len(row) ELSE Len(column_names)
  IN [c \in {column_names[i] : i \in 1..n} |->
        row[Min({i \in 1..n : column_names[i] = c})]]

\* One dict of the comprehension: column_names[i] is bound to the i-th value
\* for i below the column count; a repeated name keeps its last value.
RowDict(row, column_names) ==
  LET n == IF Len(row) < Len(column_names) THEN Len(row) ELSE Len(column_names)
  IN [c \in {column_names[i] : i \in 1..n} |->
        row[Max({i \in 1..n : column_names[i] = c})]]

\* Iterating a value that is no list raises TypeError: an integer literal
\* from the trace (the literals of the model are non-zero, so 'not raw_result'
\* is false for them).
FormatRaises(raw_result, column_names) ==
  raw_result.kind = "int" /\ column_names # <<>>

FormatRawRows(raw_result, column_names) ==
  IF raw_result.kind # "list" \/ raw_result.rows = <<>> \/ column_names = <<>>
  THEN <<>>
  ELSE [k \in 1..Len(raw_result.rows) |-> RowDict(raw_result.rows[k], column_names)]

\* -------------------------------------------------------------- handle_query
\* not sql_query or not sql_query.strip().upper().startswith("SELECT")
NeedsRetry(sql_query) == sql_query = <<>> \/ ~StartsWithSelect(Strip(sql_query))

\* A variant without the SELECT check of the final validation.
FinalCheckNoShape(sql_query) == IF sql_query = <<>> THEN "empty" ELSE "ok"

\* A variant with one error return for every rejected candidate.
FinalCheckOneMessage(sql_query) ==
  IF sql_query = <<>> \/ ~StartsWithSelect(Strip(sql_query)) THEN "empty" ELSE "ok"

\* The final validation: "empty" and "not_select" are the two error returns.
FinalCheck(sql_query) ==
  IF sql_query = <<>> THEN "empty"
  ELSE IF ~StartsWithSelect(Strip(sql_query)) THEN "not_select"
  ELSE "ok"

DefaultLimit == <<SP, "LIMIT", SP, "20">>

\* A variant that appends the default LIMIT to every statement.
AddLimitAlways(sql_query) == Strip(RStripSemi(sql_query)) \o DefaultLimit

\* if "LIMIT" not in sql_query.upper():
\*     sql_query = sql_query.rstrip(';').strip() + " LIMIT 20"
AddLimit(sql_query) ==
  IF ~ContainsKw(sql_query, "LIMIT")
  THEN Strip(RStripSemi(sql_query)) \o DefaultLimit
  ELSE sql_query

MAX_ROWS == 20

\* A variant that returns every row.
CapRowsNone(rows) == rows

\* formatted_rows[:MAX_ROWS]
CapRows(rows) == IF Len(rows) > MAX_ROWS THEN SubSeq(rows, 1, MAX_ROWS) ELSE rows

None == "None"
MsgNoQuery == "The AI could not generate a valid SQL query even after retry."
MsgNotSelect == "Only SELECT queries are allowed."

\* QueryResponse; execution_time, a wall-clock measurement, is left out.
QueryResponse(sql_query, results, raw_rows, status, error_message) ==
  [sql_query |-> sql_query, results |-> results, raw_rows |-> raw_rows,
   status |-> status, error_message |-> error_message]

\* A variant of the error returns that leaves error_message out.
ErrorOutcomeNoMessage(sql_query, error_message) ==
  QueryResponse(sql_query, <<>>, <<>>, "error", None)

\* The two error returns of the final validation.
ErrorOutcome(sql_query, error_message) ==
  QueryResponse(sql_query, <<>>, <<>>, "error", error_message)

NoOutcome == QueryResponse(<<>>, <<>>, <<>>, "none", None)

\* result.get("result", "")
ResultText(b) == IF b.hasResult THEN b.result ELSE <<>>

\* -------------------------------------------------------------- process_query
MaxQuestionLen == 500

\* len(question): the characters of all lexemes.
LenTok(t) == IF t = "X * 501" THEN MaxQuestionLen + 1 ELSE Len(t)

RECURSIVE CharLen(_)
CharLen(s) == IF s = <<>> THEN 0 ELSE LenTok(Head(s)) + CharLen(Tail(s))

SuspiciousPatterns ==
  << <<"DROP", SP, "TABLE">>, <<"DELETE", SP, "FROM">>, <<"TRUNCATE">>,
     <<"ALTER", SP, "TABLE">>, <<"DROP", SP, "DATABASE">> >>

\* pattern in question_upper, at position i: the lexemes in between are equal,
\* and the last lexeme of the question may run on after the pattern's.
PatternAt(s, i, pattern) ==
  /\ i + Len(pattern) - 1 <= Len(s)
  /\ \A k \in 1..Len(pattern) :
       IF k = Len(pattern) THEN InTok(pattern[k], UpperTok(s[i + k - 1]))
       ELSE UpperTok(s[i + k - 1]) = pattern[k]

IsSuspicious(question) ==
  \E n \in 1..Len(SuspiciousPatterns) : \E i \in 1..Len(question) :
    PatternAt(question, i, SuspiciousPatterns[n])

\* A variant of the input validation without the suspicious-pattern check.
InputCheckNoGuard(question) ==
  IF Strip(question) = <<>> THEN "Question cannot be empty"
  ELSE IF CharLen(question) > MaxQuestionLen
  THEN "Question too long (maximum 500 characters)"
  ELSE "ok"

\* The input validation of process_query: the detail of the HTTP 400 it
\* raises, or "ok".
InputCheck(question) ==
  IF Strip(question) = <<>> THEN "Question cannot be empty"
  ELSE IF CharLen(question) > MaxQuestionLen
  THEN "Question too long (maximum 500 characters)"
  ELSE IF IsSuspicious(question) THEN "Invalid query pattern detected"
  ELSE "ok"

\* ------------------------------------------------------------ schema_service
\* The live catalog after g changes: the players table, plus one table for
\* every change made to the catalog since the process started.
MaxCatalogChanges == 1

CatalogAt(g) ==
  <<[name |-> "players", columns |-> <<"name", "ovr">>]>>
  \o [k \in 1..g |-> [name |-> "t" \o ToString(k), columns |-> <<"id">>]]

RECURSIVE JoinComma(_)
JoinComma(names) ==
  IF names = <<>> THEN <<>>
  ELSE IF Len(names) = 1 THEN <<names[1]>>
  ELSE <<names[1], COMMA, SP>> \o JoinComma(Tail(names))

\* f"Table: {table_name} | Columns: {', '.join(columns)}"
TableLine(t) ==
  <<"Table:", SP, t.name, SP, "|", SP, "Columns:", SP>> \o JoinComma(t.columns)

\* "\n".join(schema_parts)
RECURSIVE SchemaTextOf(_)
SchemaTextOf(tables) ==
  IF tables = <<>> THEN <<>>
  ELSE IF Len(tables) = 1 THEN TableLine(tables[1])
  ELSE TableLine(tables[1]) \o <<NL>> \o SchemaTextOf(Tail(tables))

NoCache == [cached |-> FALSE, text |-> <<>>]

\* A variant of get_schema_text that reads the catalog on every call.
ReadsCatalogAlways(cache, force_refresh) == TRUE

\* if SCHEMA_CACHE_TEXT is None or force_refresh:
ReadsCatalog(cache, force_refresh) == ~cache.cached \/ force_refresh

\* ---------------------------------------------------------------- the inputs
\* Words separated by one blank.
RECURSIVE Sp(_)
Sp(words) ==
  IF Len(words) <= 1 THEN words ELSE <<words[1], SP>> \o Sp(Tail(words))

\* A stand-in for one word of 501 characters.
LongWord == "X * 501"

Questions ==
  { Sp(<<"best", "players">>),
    Sp(<<"best", "footballers">>),
    Sp(<<"DROP", "TABLE", "players">>),
    Sp(<<"drop", "table", "players">>),
    <<"drop", SP, SP, "table", SP, "players">>,
    Sp(<<"truncated", "stats">>),
    Sp(<<"create", "table", "players">>),
    <<SP, NL>>,
    <<LongWord>>,
    <<LongWord, SP, "DROP", SP, "TABLE">> }

StmtNameOvr ==
  <<"SELECT", SP, "name", COMMA, SP, "ovr", SP, "FROM", SP, "players", SP, "LIMIT", SP, "3">>

\* A text with a second statement after the terminator of the first.
StmtTwo ==
  Sp(<<"SELECT", "1">>) \o <<SEMI, SP>> \o Sp(<<"DELETE", "FROM", "players">>)

\* What db_chain.invoke can return.  The first bundle is the FakeDBChain of
\* tests/conftest.py (with two rows); the others put the statement in a dict
\* entry, in the answer text, under a label or nowhere, with or without
\* result data in the trace; one holds two statements in a text entry.
Bundles ==
  { Bundle(Sp(<<"Top", "players", "list">>),
           <<TextStep(StmtNameOvr \o <<SEMI>>),
             TextStep(<<"SQLResult:", SP, "[('Messi', 93), ('Ronaldo', 92)]">>)>>),
    Bundle(<<"x">>, <<CmdStep(Sp(<<"DELETE", "FROM", "players">>))>>),
    Bundle(Sp(<<"No", "SQL", "here">>),
           <<TextStep(Sp(<<"No", "SQL", "here">>)), TextStep(<<"[('Kane', 90)]">>)>>),
    Bundle(<<"unlimited">>,
           <<TextStep(Sp(<<"SELECT", "name", "FROM", "players", "unlimited">>))>>),
    Bundle(<<"name">>,
           <<TextStep(Sp(<<"select", "name", "from", "players">>) \o <<SEMI>>)>>),
    Bundle(<<"ovr">>,
           <<CmdStep(Sp(<<"SELECT", "ovr", "FROM", "players">>)),
             TextStep(<<"[('Kane', 90)]">>)>>),
    Bundle(<<"3">>,
           <<TextStep(Sp(<<"SELECT", "name", "FROM", "players">>)),
             TextStep(<<"SQLResult:", SP, "3">>)>>),
    Bundle(<<FENCESQL, SP>> \o Sp(<<"SELECT", "name", "FROM", "players">>) \o <<SP, FENCE>>,
           <<>>),
    Bundle(Sp(<<"SELECT", "ovr", "FROM", "players">>),
           <<TextStep(Sp(<<"No", "SQL", "here">>))>>),
    Bundle(<<"many">>,
           <<TextStep(Sp(<<"SELECT", "rank", "FROM", "players", "LIMIT", "50">>) \o <<SEMI>>),
             TextStep(<<"SQLResult:", SP, ManyRowsLiteral>>)>>),
    Bundle(<<"avg">>,
           <<TextStep(Sp(<<"SELECT", "ovr", "FROM", "players", "LIMIT", "3">>) \o <<SEMI>>),
             TextStep(<<"SQLResult:", SP, "[(Decimal('9.5'),)]">>)>>),
    Bundle(<<"list">>,
           <<TextStep(<<"SQLQuery:", SP>> \o StmtNameOvr),
             TextStep(Sp(<<"SQLResult:", "list">>))>>),
    Bundle(<<"two">>, <<TextStep(StmtTwo)>>),
    [hasResult |-> FALSE, result |-> <<>>, hasSteps |-> FALSE, steps |-> <<>>] }

NoBundle == [hasResult |-> FALSE, result |-> <<"-">>, hasSteps |-> FALSE, steps |-> <<>>]

\* ------------------------------------------------------------------ state
VARIABLES
  api_key_set,        \* ai_service.openai_api_key is set
  env_model,          \* os.getenv("OPENAI_MODEL"), "" when unset
  current_model,      \* ai_service._current_model, "" for None
  llm_set,            \* ai_service._llm is not None
  db_chain_set,       \* ai_service._db_chain is not None
  SCHEMA_CACHE_TEXT,  \* schema_service.SCHEMA_CACHE_TEXT
  catalog,            \* number of changes made to the live catalog
  pc,                 \* position of the request in process_query / handle_query
  payload,            \* payload.question, process_query's question
  question,           \* handle_query's question
  prompt,             \* prompt_with_schema
  result,             \* handle_query's result
  sql_query,          \* handle_query's sql_query
  retried,            \* handle_query's retried
  exception,          \* the exception handle_query raised, None if none
  outcome,            \* the QueryResponse handle_query returned
  response,           \* what the caller of /query receives
  genLog,             \* history: the db_chain.invoke calls of the request
  extracted,          \* history: what each extract_sql_query call returned
  raw_db_result,      \* handle_query's raw_db_result
  column_names,       \* handle_query's column_names
  formatted_rows,     \* handle_query's formatted_rows
  execLog,            \* history: the get_db().run calls of the request
  schemaCall,         \* history: the get_schema_text() call of the request
  saveLog,            \* history: how the history save of the request went
  sop,                \* position of the /schema or /refresh-schema call
  scall,              \* history: the schema call in progress and its catalog reads
  sreply,             \* what the caller of /schema or /refresh-schema receives
  fetched,            \* history: a structured schema has been returned
  refreshed,          \* history: the text built by the last refresh_schema_cache
  history,            \* the rows of the table "history", in insertion order
  hcall,              \* history: the last HistoryService call that reads or deletes
  thread,             \* the concurrent callers of get_schema_text: position and locals
  published           \* history: the texts those callers assigned to the cache

procVars == <<api_key_set, env_model, current_model, llm_set, db_chain_set,
              SCHEMA_CACHE_TEXT, catalog>>
reqVars == <<payload, question, prompt, result, sql_query, raw_db_result, column_names,
             formatted_rows, retried,
             exception, outcome,
             response, genLog, extracted, execLog, schemaCall, saveLog>>
schemaVars == <<sop, scall, sreply, fetched, refreshed>>
histVars == <<history, hcall>>
thrVars == <<thread, published>>
vars == <<procVars, pc, reqVars, schemaVars, histVars, thrVars>>

\* ------------------------------------------- get_schema_text, called by threads
MaxThreads == 2
Threads == 1..MaxThreads

\* A caller outside get_schema_text.
NoThread ==
  [pc |-> "idle", force_refresh |-> FALSE, names |-> 0, read |-> 0,
   schema_parts |-> <<>>, returned |-> <<>>]

\* "\n".join(schema_parts)
RECURSIVE JoinLines(_)
JoinLines(schema_parts) ==
  IF schema_parts = <<>> THEN <<>>
  ELSE IF Len(schema_parts) = 1 THEN schema_parts[1]
  ELSE schema_parts[1] \o <<NL>> \o JoinLines(Tail(schema_parts))

\* Variant: the cache is written at every pass of the loop.
CacheInLoopShared(cache, schema_parts) == [cached |-> TRUE, text |-> JoinLines(schema_parts)]

\* The loop over the tables appends to the local list schema_parts; the
\* module variable is not written in the loop.
CacheInLoop(cache, schema_parts) == cache


\* ----------------------------------------------------------- HistoryService
\* A row of the table: its primary key and its owner (the other columns
\* play no part in the queries' filters).
MaxEntries == 3
MaxSaved == 1
Users == {"A", "B"}
HistoryIds == 1..MaxEntries

NoHistoryCall ==
  [op |-> "none", user_id |-> "", history_id |-> 0, before |-> <<>>,
   items |-> <<>>, found |-> FALSE, count |-> 0]

\* id = str(uuid.uuid4()): a key no row of the table has.
FreshIds(h) == HistoryIds \ {h[k].id : k \in 1..Len(h)}

\* db.add(History(user_id=user_id, ...)); db.commit()
CreateHistoryEntry(h, history_id, user_id) ==
  Append(h, [id |-> history_id, user_id |-> user_id])

\* .filter(History.user_id == user_id)
OwnedBy(h, user_id) == SelectSeq(h, LAMBDA e : e.user_id = user_id)

\* .order_by(desc(History.created_date)): the newest row first.
NewestFirst(h) == [k \in 1..Len(h) |-> h[Len(h) + 1 - k]]

\* get_user_history: .offset(offset).limit(per_page).all()
GetUserHistory(h, user_id, page, per_page) ==
  LET mine == NewestFirst(OwnedBy(h, user_id))
      offset == (page - 1) * per_page
      last == IF offset + per_page < Len(mine) THEN offset + per_page ELSE Len(mine)
  IN [items |-> Slice(mine, offset + 1, last), total |-> Len(mine)]

\* .filter(History.id == history_id, History.user_id == user_id)
Matching(h, history_id, user_id) ==
  SelectSeq(h, LAMBDA e : e.id = history_id /\ e.user_id = user_id)

\* get_history_by_id: .first(), None when no row matches.
GetHistoryById(h, history_id, user_id) ==
  IF Matching(h, history_id, user_id) = <<>> THEN <<>>
  ELSE <<Matching(h, history_id, user_id)[1]>>

\* Variant: the row is selected by its id alone.
DeleteHistoryEntryAnyOwner(h, history_id, user_id) ==
  SelectSeq(h, LAMBDA e : ~(e.id = history_id))

\* delete_history_entry: the rows left in the table.
DeleteHistoryEntry(h, history_id, user_id) ==
  SelectSeq(h, LAMBDA e : ~(e.id = history_id /\ e.user_id = user_id))

\* clear_user_history: the rows left in the table.
ClearUserHistory(h, user_id) == SelectSeq(h, LAMBDA e : e.user_id # user_id)


NoSchemaCall == [called |-> FALSE, before |-> NoCache, reads |-> <<>>, returned |-> <<>>]
NoCall == [op |-> "none", before |-> NoCache, had |-> FALSE, reads |-> <<>>]
NoReply == [kind |-> "none", tables |-> <<>>]
NoText == [done |-> FALSE, text |-> <<>>]

NoPrompt == BuildSchemaAwarePrompt(<<>>, <<>>, "")
NoResponse == [kind |-> "none", code |-> 0, detail |-> "", body |-> NoOutcome]

\* get_current_model()
GetCurrentModel(model) == IF model = "" THEN "unknown" ELSE model

Init ==
  /\ api_key_set \in BOOLEAN
  /\ env_model \in {"", "gpt-4o", "gpt-3.5-turbo"}
  /\ current_model = env_model
  /\ llm_set = FALSE
  /\ db_chain_set = FALSE
  /\ SCHEMA_CACHE_TEXT = NoCache
  /\ catalog = 0
  /\ pc = "idle"
  /\ payload = <<>>
  /\ question = <<>>
  /\ prompt = NoPrompt
  /\ result = NoBundle
  /\ sql_query = <<>>
  /\ raw_db_result = NoValue
  /\ column_names = <<>>
  /\ formatted_rows = <<>>
  /\ retried = FALSE
  /\ exception = None
  /\ outcome = NoOutcome
  /\ response = NoResponse
  /\ genLog = <<>>
  /\ extracted = <<>>
  /\ execLog = <<>>
  /\ schemaCall = NoSchemaCall
  /\ saveLog = "none"
  /\ sop = "idle"
  /\ scall = NoCall
  /\ sreply = NoReply
  /\ fetched = FALSE
  /\ refreshed = NoText
  /\ history = <<>>
  /\ hcall = NoHistoryCall
  /\ thread = [t \in Threads |-> NoThread]
  /\ published = {}

\* The data store's catalog changes (a table is added) outside the service.
AlterCatalog ==
  /\ catalog < MaxCatalogChanges
  /\ catalog' = catalog + 1
  /\ UNCHANGED <<api_key_set, env_model, current_model, llm_set, db_chain_set,
                 SCHEMA_CACHE_TEXT, pc, reqVars, schemaVars>>
  /\ UNCHANGED histVars
  /\ UNCHANGED thrVars

\* POST /query, up to the call of handle_query: the input validation raises
\* HTTPException(400) before anything else runs.
ProcessQuery(q) ==
  /\ pc = "idle"
  /\ sop = "idle"
  /\ payload' = q
  /\ IF InputCheck(q) # "ok"
     THEN /\ response' = [kind |-> "http_error", code |-> 400,
                          detail |-> InputCheck(q), body |-> NoOutcome]
          /\ pc' = "responded"
     ELSE /\ response' = response
          /\ pc' = "handle"
  /\ UNCHANGED <<raw_db_result, column_names, formatted_rows,
                 procVars, question, prompt, result, sql_query, retried,
                 exception, outcome, genLog, extracted, execLog, schemaCall, saveLog, schemaVars>>
  /\ UNCHANGED histVars
  /\ UNCHANGED thrVars

\* handle_query up to get_db_chain(): alias mapping, get_schema_text() (a
\* catalog read when the cache is empty, which can fail), the prompt, and
\* the chain (created on first use: that sets _current_model; it fails
\* without an API key or when the data store cannot be reached).
HandleStart(catalog_ok, chain_ok) ==
  /\ pc = "handle"
  /\ question' = ApplyAliasMapping(payload)
  /\ IF ReadsCatalog(SCHEMA_CACHE_TEXT, FALSE) /\ ~catalog_ok
     THEN /\ pc' = "raised"
          /\ exception' = "SchemaUnavailable"
          /\ schemaCall' = [called |-> TRUE, before |-> SCHEMA_CACHE_TEXT,
                            reads |-> <<catalog>>, returned |-> <<>>]
          /\ UNCHANGED <<SCHEMA_CACHE_TEXT, prompt, current_model, llm_set, db_chain_set>>
     ELSE /\ SCHEMA_CACHE_TEXT' =
               IF ReadsCatalog(SCHEMA_CACHE_TEXT, FALSE)
               THEN [cached |-> TRUE, text |-> SchemaTextOf(CatalogAt(catalog))]
               ELSE SCHEMA_CACHE_TEXT
          /\ schemaCall' = [called |-> TRUE, before |-> SCHEMA_CACHE_TEXT,
                            reads |-> IF ReadsCatalog(SCHEMA_CACHE_TEXT, FALSE)
                                      THEN <<catalog>> ELSE <<>>,
                            returned |-> SCHEMA_CACHE_TEXT'.text]
          /\ prompt' = BuildSchemaAwarePrompt(question', SCHEMA_CACHE_TEXT'.text,
                                              GetCurrentModel(current_model))
          /\ IF db_chain_set
             THEN /\ pc' = "invoke"
                  /\ UNCHANGED <<exception, current_model, llm_set, db_chain_set>>
             ELSE IF ~api_key_set
             THEN /\ pc' = "raised"
                  /\ exception' = "ValueError"
                  /\ UNCHANGED <<current_model, llm_set, db_chain_set>>
             ELSE /\ current_model' =
                       IF llm_set THEN current_model
                       ELSE IF env_model = "" THEN "gpt-4o-mini" ELSE env_model
                  /\ llm_set' = TRUE
                  /\ db_chain_set' = chain_ok
                  /\ pc' = IF chain_ok THEN "invoke" ELSE "raised"
                  /\ exception' = IF chain_ok THEN exception ELSE "ChainError"
  /\ UNCHANGED <<raw_db_result, column_names, formatted_rows,
                 api_key_set, env_model, catalog, payload, result, sql_query,
                 retried, outcome, response, genLog, extracted, execLog, saveLog, schemaVars>>
  /\ UNCHANGED histVars
  /\ UNCHANGED thrVars

\* What one db_chain.invoke call can do: raise (an API error, a timeout, a
\* statement the chain could not run), or return a bundle.
GenOutcomes ==
  {[raised |-> TRUE, bundle |-> NoBundle]}
  \cup {[raised |-> FALSE, bundle |-> b] : b \in Bundles}

\* A variant that builds the prompt of the second call anew.
RetryPromptRebuilt(prompt_with_schema, q, schema_text, model) ==
  BuildSchemaAwarePrompt(q, schema_text, model)

\* The prompt of the second call: db_chain.invoke(prompt_with_schema) again.
RetryPrompt(prompt_with_schema, q, schema_text, model) == prompt_with_schema

\* The bundle and the statement handle_query goes on with after an attempt.
Attempt(call) ==
  /\ genLog' = Append(genLog, [prompt |-> call.prompt, raised |-> call.raised,
                               bundle |-> call.bundle])
  /\ IF call.raised
     THEN /\ pc' = "raised"
          /\ exception' = "GenerationError"
          /\ UNCHANGED <<result, sql_query, extracted>>
     ELSE /\ result' = call.bundle
          /\ sql_query' = ExtractSqlQuery(call.bundle)
          /\ extracted' = Append(extracted, sql_query')
          /\ exception' = exception
  /\ UNCHANGED histVars
  /\ UNCHANGED thrVars

\* First attempt: invoke, extract, and decide whether to retry.
FirstAttempt(out) ==
  /\ pc = "invoke"
  /\ Attempt([prompt |-> prompt, raised |-> out.raised, bundle |-> out.bundle])
  /\ IF out.raised
     THEN retried' = retried
     ELSE /\ retried' = NeedsRetry(sql_query')
          /\ pc' = IF retried' THEN "retry" ELSE "validate"
  /\ UNCHANGED <<raw_db_result, column_names, formatted_rows,
                 procVars, payload, question, prompt, outcome, response, execLog,
                 schemaCall, saveLog, schemaVars>>

\* The one retry: invoke again and extract again.
Retry(out) ==
  /\ pc = "retry"
  /\ Attempt([prompt |-> RetryPrompt(prompt, question, SCHEMA_CACHE_TEXT.text,
                                     GetCurrentModel(current_model)),
              raised |-> out.raised, bundle |-> out.bundle])
  /\ IF out.raised THEN TRUE ELSE pc' = "validate"
  /\ UNCHANGED <<raw_db_result, column_names, formatted_rows,
                 procVars, payload, question, prompt, retried, outcome, response,
                 execLog, schemaCall, saveLog, schemaVars>>

\* Final validation, then the LIMIT clause.
Validate ==
  /\ pc = "validate"
  /\ CASE FinalCheck(sql_query) = "empty" ->
            /\ outcome' = ErrorOutcome(<<>>, MsgNoQuery)
            /\ pc' = "returned"
            /\ UNCHANGED sql_query
       [] FinalCheck(sql_query) = "not_select" ->
            /\ outcome' = ErrorOutcome(sql_query, MsgNotSelect)
            /\ pc' = "returned"
            /\ UNCHANGED sql_query
       [] OTHER ->
            /\ sql_query' = AddLimit(sql_query)
            /\ pc' = "execute"
            /\ UNCHANGED outcome
  /\ UNCHANGED <<raw_db_result, column_names, formatted_rows,
                 procVars, payload, question, prompt, result, retried, exception,
                 response, genLog, extracted, execLog, schemaCall, saveLog, schemaVars>>
  /\ UNCHANGED histVars
  /\ UNCHANGED thrVars

\* extract_raw_results, extract_column_names, format_raw_rows, the row cap
\* and the success response.  db is what get_db().run does if it is called.
Execute(db) ==
  /\ pc = "execute"
  /\ execLog' = IF RunsDirectly(result, sql_query)
                THEN Append(execLog, [statement |-> sql_query, db |-> db])
                ELSE execLog
  /\ raw_db_result' = ExtractRawResults(result, sql_query, db)
  /\ column_names' = ExtractColumnNames(sql_query)
  /\ IF FormatRaises(raw_db_result', column_names')
     THEN /\ pc' = "raised"
          /\ exception' = "TypeError"
          /\ UNCHANGED <<formatted_rows, outcome>>
     ELSE /\ formatted_rows' = CapRows(FormatRawRows(raw_db_result', column_names'))
          /\ outcome' = QueryResponse(sql_query, ResultText(result), formatted_rows',
                                      "success", None)
          /\ pc' = "returned"
          /\ UNCHANGED exception
  /\ UNCHANGED <<procVars, payload, question, prompt, result, sql_query, retried,
                 response, genLog, extracted, schemaCall, saveLog, schemaVars>>
  /\ UNCHANGED histVars
  /\ UNCHANGED thrVars

\* How the history save of process_query can go: no save (user_id is None,
\* or handle_query raised), an entry saved, or a failure of get_session(),
\* of building or inserting the entry, or of db.close().
SaveOutcomes == {"none", "saved", "session_error", "entry_error", "close_error"}

\* The failures the inner try of the history save does not catch:
\* get_session() is called before the try, db.close() in its finally.
SaveRaises(save) == save \in {"session_error", "close_error"}

\* process_query after handle_query: the outcome is saved to history for an
\* authenticated user and returned; an exception of handle_query, or one the
\* history save lets through, is logged and raised again (the caller
\* receives HTTP 500).  A save adds a row to the table (also when only
\* db.close() fails afterwards); the table holds at most MaxSaved rows here.
Respond(save) ==
  /\ pc \in {"returned", "raised"}
  /\ pc = "raised" => save = "none"
  /\ saveLog' = save
  /\ IF save \in {"saved", "close_error"}
     THEN /\ Len(history) < MaxSaved
          /\ \E user_id \in Users :
               history' = CreateHistoryEntry(history, Min(FreshIds(history)), user_id)
     ELSE UNCHANGED history
  /\ UNCHANGED hcall
  /\ response' = IF pc = "returned" /\ ~SaveRaises(save)
                 THEN [kind |-> "outcome", code |-> 200, detail |-> "", body |-> outcome]
                 ELSE [kind |-> "http_error", code |-> 500,
                       detail |-> IF pc = "raised" THEN exception ELSE save,
                       body |-> NoOutcome]
  /\ pc' = "responded"
  /\ UNCHANGED <<raw_db_result, column_names, formatted_rows,
                 procVars, payload, question, prompt, result, sql_query, retried,
                 exception, outcome, genLog, extracted, execLog, schemaCall, schemaVars>>
  /\ UNCHANGED thrVars

\* The next request starts: the locals of the finished one are gone.
NextRequest ==
  /\ pc = "responded"
  /\ pc' = "idle"
  /\ payload' = <<>>
  /\ question' = <<>>
  /\ prompt' = NoPrompt
  /\ result' = NoBundle
  /\ sql_query' = <<>>
  /\ raw_db_result' = NoValue
  /\ column_names' = <<>>
  /\ formatted_rows' = <<>>
  /\ retried' = FALSE
  /\ exception' = None
  /\ outcome' = NoOutcome
  /\ response' = NoResponse
  /\ genLog' = <<>>
  /\ extracted' = <<>>
  /\ execLog' = <<>>
  /\ schemaCall' = NoSchemaCall
  /\ saveLog' = "none"
  /\ UNCHANGED <<procVars, schemaVars>>
  /\ UNCHANGED histVars
  /\ UNCHANGED thrVars

\* GET /schema: get_schema_response() reads the catalog on every call and
\* stores nothing.
GetSchema(catalog_ok) ==
  /\ pc = "idle"
  /\ sop = "idle"
  /\ scall' = [op |-> "schema", before |-> SCHEMA_CACHE_TEXT, had |-> fetched,
                reads |-> <<catalog>>]
  /\ sop' = "done"
  /\ IF catalog_ok
     THEN /\ sreply' = [kind |-> "schema", tables |-> CatalogAt(catalog)]
          /\ fetched' = TRUE
     ELSE /\ sreply' = [kind |-> "error", tables |-> <<>>]
          /\ UNCHANGED fetched
  /\ UNCHANGED <<procVars, pc, reqVars, refreshed>>
  /\ UNCHANGED histVars
  /\ UNCHANGED thrVars

\* GET /refresh-schema, first half: get_schema_text(force_refresh=True) reads
\* the catalog and stores the text once it is built; a failed read raises
\* before the assignment.
RefreshText(catalog_ok) ==
  /\ pc = "idle"
  /\ sop = "idle"
  /\ ReadsCatalog(SCHEMA_CACHE_TEXT, TRUE)
  /\ scall' = [op |-> "refresh", before |-> SCHEMA_CACHE_TEXT, had |-> fetched,
                reads |-> <<catalog>>]
  /\ IF catalog_ok
     THEN /\ SCHEMA_CACHE_TEXT' = [cached |-> TRUE, text |-> SchemaTextOf(CatalogAt(catalog))]
          /\ sop' = "refresh_json"
          /\ UNCHANGED sreply
     ELSE /\ sop' = "done"
          /\ sreply' = [kind |-> "error", tables |-> <<>>]
          /\ UNCHANGED SCHEMA_CACHE_TEXT
  /\ UNCHANGED <<api_key_set, env_model, current_model, llm_set, db_chain_set, catalog,
                 pc, reqVars, fetched, refreshed>>
  /\ UNCHANGED histVars
  /\ UNCHANGED thrVars

\* GET /refresh-schema, second half: get_schema_response(force_refresh=True)
\* reads the catalog again and returns the structured schema.
RefreshJson(catalog_ok) ==
  /\ sop = "refresh_json"
  /\ scall' = [scall EXCEPT !.reads = Append(@, catalog)]
  /\ sop' = "done"
  /\ refreshed' = [done |-> TRUE, text |-> SCHEMA_CACHE_TEXT.text]
  /\ IF catalog_ok
     THEN /\ sreply' = [kind |-> "schema", tables |-> CatalogAt(catalog)]
          /\ fetched' = TRUE
     ELSE /\ sreply' = [kind |-> "error", tables |-> <<>>]
          /\ UNCHANGED fetched
  /\ UNCHANGED <<procVars, pc, reqVars>>
  /\ UNCHANGED histVars
  /\ UNCHANGED thrVars

\* The schema call has been answered.
SchemaReturn ==
  /\ sop = "done"
  /\ sop' = "idle"
  /\ scall' = NoCall
  /\ sreply' = NoReply
  /\ UNCHANGED <<procVars, pc, reqVars, fetched, refreshed>>
  /\ UNCHANGED histVars
  /\ UNCHANGED thrVars

Next ==
  \/ AlterCatalog
  \/ \E q \in Questions : ProcessQuery(q)
  \/ \E catalog_ok \in BOOLEAN, chain_ok \in BOOLEAN : HandleStart(catalog_ok, chain_ok)
  \/ \E out \in GenOutcomes : FirstAttempt(out)
  \/ \E out \in GenOutcomes : Retry(out)
  \/ Validate
  \/ \E db \in DbOutcomes : Execute(db)
  \/ \E save \in SaveOutcomes : Respond(save)
  \/ NextRequest
  \/ \E catalog_ok \in BOOLEAN : GetSchema(catalog_ok)
  \/ \E catalog_ok \in BOOLEAN : RefreshText(catalog_ok)
  \/ \E catalog_ok \in BOOLEAN : RefreshJson(catalog_ok)
  \/ SchemaReturn

Spec == Init /\ [][Next]_vars

\* ------------------------------------------- extract_column_names, called alone
\* The function is also called on its own (tests/test_query.py calls it with
\* statements of every shape).  The statements are: the empty text, a text
\* that is no statement, statements without a projection between SELECT and
\* FROM, the bare * projection, and projections of one to MaxItems items.
MaxItems == 3

ProjectionItems ==
  { <<"name">>,
    <<"ovr">>,
    <<"p", ".", "team">>,
    <<"ovr", SP, "as", SP, "rating">>,
    <<"\"", "nation", "\"">>,
    <<"ovr", SP, "AS", SP, "rating">>,
    <<"\"", "p", "\"", ".", "\"", "ovr", "\"">>,
    <<"*">> }

ItemLists == UNION {[1..n -> ProjectionItems] : n \in 1..MaxItems}

RECURSIVE ProjectionOf(_)
ProjectionOf(items) ==
  IF Len(items) = 1 THEN items[1]
  ELSE items[1] \o <<COMMA, SP>> \o ProjectionOf(Tail(items))

ColumnQueries ==
  { <<>>,
    Sp(<<"INVALID", "SQL">>),
    Sp(<<"SELECT", "FROM", "players">>),
    <<"SELECT", SP, SP, "FROM", SP, "players">>,
    Sp(<<"select", "*", "from", "players">>),
    Sp(<<"SELECT", "name">>) }
  \cup {<<"SELECT", SP>> \o ProjectionOf(it) \o <<SP, "FROM", SP, "players">> : it \in ItemLists}

InitColumns ==
  /\ api_key_set = FALSE
  /\ env_model = ""
  /\ current_model = ""
  /\ llm_set = FALSE
  /\ db_chain_set = FALSE
  /\ SCHEMA_CACHE_TEXT = NoCache
  /\ catalog = 0
  /\ pc = "call"
  /\ payload = <<>>
  /\ question = <<>>
  /\ prompt = NoPrompt
  /\ result = NoBundle
  /\ sql_query \in ColumnQueries
  /\ raw_db_result = NoValue
  /\ column_names = <<>>
  /\ formatted_rows = <<>>
  /\ retried = FALSE
  /\ exception = None
  /\ outcome = NoOutcome
  /\ response = NoResponse
  /\ genLog = <<>>
  /\ extracted = <<>>
  /\ execLog = <<>>
  /\ schemaCall = NoSchemaCall
  /\ saveLog = "none"
  /\ sop = "idle"
  /\ scall = NoCall
  /\ sreply = NoReply
  /\ fetched = FALSE
  /\ refreshed = NoText
  /\ history = <<>>
  /\ hcall = NoHistoryCall
  /\ thread = [t \in Threads |-> NoThread]
  /\ published = {}

\* column_names = extract_column_names(sql_query)
ExtractColumnNamesCall ==
  /\ pc = "call"
  /\ column_names' = ExtractColumnNames(sql_query)
  /\ pc' = "called"
  /\ UNCHANGED <<raw_db_result, formatted_rows, procVars, payload, question, prompt, result, sql_query, retried,
                 exception, outcome, response, genLog, extracted, execLog, schemaCall,
                 saveLog, schemaVars>>
  /\ UNCHANGED histVars
  /\ UNCHANGED thrVars

NextColumns == ExtractColumnNamesCall

SpecColumns == InitColumns /\ [][NextColumns]_vars

\* ------------------------------------------------ format_raw_rows, called alone
\* The function is also called on its own: lists of up to MaxTuples tuples
\* of zero to three values, and lists of up to MaxColumns column names in
\* which a name may be repeated.
MaxTuples == 2
MaxColumns == 3

RawTuples == {<<>>, <<7>>, <<7, 8>>, <<7, 8, 9>>}

RawLists == UNION {[1..n -> RawTuples] : n \in 0..MaxTuples}

ColumnLists == UNION {[1..n -> {<<"name">>, <<"ovr">>}] : n \in 0..MaxColumns}

InitRows ==
  /\ api_key_set = FALSE
  /\ env_model = ""
  /\ current_model = ""
  /\ llm_set = FALSE
  /\ db_chain_set = FALSE
  /\ SCHEMA_CACHE_TEXT = NoCache
  /\ catalog = 0
  /\ pc = "format"
  /\ payload = <<>>
  /\ question = <<>>
  /\ prompt = NoPrompt
  /\ result = NoBundle
  /\ sql_query = <<>>
  /\ \E rows \in RawLists : raw_db_result = [kind |-> "list", rows |-> rows]
  /\ column_names \in ColumnLists
  /\ formatted_rows = <<>>
  /\ retried = FALSE
  /\ exception = None
  /\ outcome = NoOutcome
  /\ response = NoResponse
  /\ genLog = <<>>
  /\ extracted = <<>>
  /\ execLog = <<>>
  /\ schemaCall = NoSchemaCall
  /\ saveLog = "none"
  /\ sop = "idle"
  /\ scall = NoCall
  /\ sreply = NoReply
  /\ fetched = FALSE
  /\ refreshed = NoText
  /\ history = <<>>
  /\ hcall = NoHistoryCall
  /\ thread = [t \in Threads |-> NoThread]
  /\ published = {}

\* formatted_rows = format_raw_rows(raw_db_result, column_names)
FormatRawRowsCall ==
  /\ pc = "format"
  /\ formatted_rows' = FormatRawRows(raw_db_result, column_names)
  /\ pc' = "formatted"
  /\ UNCHANGED <<raw_db_result, column_names, procVars, payload, question, prompt, result,
                 sql_query, retried, exception, outcome, response, genLog, extracted,
                 execLog, schemaCall, saveLog, schemaVars>>
  /\ UNCHANGED histVars
  /\ UNCHANGED thrVars

NextRows == FormatRawRowsCall

SpecRows == InitRows /\ [][NextRows]_vars

\* -------------------------------------------- apply_alias_mapping, called alone
\* The function is also called on its own: texts of one to MaxWords words
\* separated by one blank, the words drawn from the alias table and written
\* in lower or mixed case.
MaxWords == 4

AliasWords == {"club", "name", "team", "position", "overall", "Rating", "fifa", "players"}

AliasTexts == {Sp(w) : w \in UNION {[1..n -> AliasWords] : n \in 1..MaxWords}}

InitAlias ==
  /\ api_key_set = FALSE
  /\ env_model = ""
  /\ current_model = ""
  /\ llm_set = FALSE
  /\ db_chain_set = FALSE
  /\ SCHEMA_CACHE_TEXT = NoCache
  /\ catalog = 0
  /\ pc = "map"
  /\ payload \in AliasTexts
  /\ question = <<>>
  /\ prompt = NoPrompt
  /\ result = NoBundle
  /\ sql_query = <<>>
  /\ raw_db_result = NoValue
  /\ column_names = <<>>
  /\ formatted_rows = <<>>
  /\ retried = FALSE
  /\ exception = None
  /\ outcome = NoOutcome
  /\ response = NoResponse
  /\ genLog = <<>>
  /\ extracted = <<>>
  /\ execLog = <<>>
  /\ schemaCall = NoSchemaCall
  /\ saveLog = "none"
  /\ sop = "idle"
  /\ scall = NoCall
  /\ sreply = NoReply
  /\ fetched = FALSE
  /\ refreshed = NoText
  /\ history = <<>>
  /\ hcall = NoHistoryCall
  /\ thread = [t \in Threads |-> NoThread]
  /\ published = {}

\* question = apply_alias_mapping(question)
ApplyAliasMappingCall ==
  /\ pc = "map"
  /\ question' = ApplyAliasMapping(payload)
  /\ pc' = "mapped"
  /\ UNCHANGED <<raw_db_result, column_names, formatted_rows, procVars, payload, prompt,
                 result, sql_query, retried, exception, outcome, response, genLog,
                 extracted, execLog, schemaCall, saveLog, schemaVars>>
  /\ UNCHANGED histVars
  /\ UNCHANGED thrVars

NextAlias == ApplyAliasMappingCall

SpecAlias == InitAlias /\ [][NextAlias]_vars

\* ---------------------------------------------------- HistoryService, by user
\* The service's operations called for the users of Users on a table of at
\* most MaxEntries rows.
InitHistory ==
  /\ api_key_set = FALSE
  /\ env_model = ""
  /\ current_model = ""
  /\ llm_set = FALSE
  /\ db_chain_set = FALSE
  /\ SCHEMA_CACHE_TEXT = NoCache
  /\ catalog = 0
  /\ pc = "history"
  /\ payload = <<>>
  /\ question = <<>>
  /\ prompt = NoPrompt
  /\ result = NoBundle
  /\ sql_query = <<>>
  /\ raw_db_result = NoValue
  /\ column_names = <<>>
  /\ formatted_rows = <<>>
  /\ retried = FALSE
  /\ exception = None
  /\ outcome = NoOutcome
  /\ response = NoResponse
  /\ genLog = <<>>
  /\ extracted = <<>>
  /\ execLog = <<>>
  /\ schemaCall = NoSchemaCall
  /\ saveLog = "none"
  /\ sop = "idle"
  /\ scall = NoCall
  /\ sreply = NoReply
  /\ fetched = FALSE
  /\ refreshed = NoText
  /\ history = <<>>
  /\ hcall = NoHistoryCall
  /\ thread = [t \in Threads |-> NoThread]
  /\ published = {}

\* HistoryService.create_history_entry(db, user_id, history_data)
CreateEntry(user_id, history_id) ==
  /\ Len(history) < MaxEntries
  /\ history_id \in FreshIds(history)
  /\ history' = CreateHistoryEntry(history, history_id, user_id)
  /\ hcall' = NoHistoryCall
  /\ UNCHANGED <<procVars, pc, reqVars, schemaVars>>
  /\ UNCHANGED thrVars

\* HistoryService.get_user_history(db, user_id, page, per_page)
ListHistory(user_id, page, per_page) ==
  /\ hcall' = [op |-> "list", user_id |-> user_id, history_id |-> 0, before |-> history,
               items |-> GetUserHistory(history, user_id, page, per_page).items,
               found |-> FALSE,
               count |-> GetUserHistory(history, user_id, page, per_page).total]
  /\ UNCHANGED <<procVars, pc, reqVars, schemaVars, history>>
  /\ UNCHANGED thrVars

\* HistoryService.get_history_by_id(db, history_id, user_id)
GetById(user_id, history_id) ==
  /\ hcall' = [op |-> "get", user_id |-> user_id, history_id |-> history_id,
               before |-> history,
               items |-> GetHistoryById(history, history_id, user_id),
               found |-> GetHistoryById(history, history_id, user_id) # <<>>,
               count |-> 0]
  /\ UNCHANGED <<procVars, pc, reqVars, schemaVars, history>>
  /\ UNCHANGED thrVars

\* HistoryService.delete_history_entry(db, history_id, user_id): deleted > 0
DeleteEntry(user_id, history_id) ==
  /\ history' = DeleteHistoryEntry(history, history_id, user_id)
  /\ hcall' = [op |-> "delete", user_id |-> user_id, history_id |-> history_id,
               before |-> history, items |-> <<>>,
               found |-> Len(history) - Len(history') > 0,
               count |-> Len(history) - Len(history')]
  /\ UNCHANGED <<procVars, pc, reqVars, schemaVars>>
  /\ UNCHANGED thrVars

\* HistoryService.clear_user_history(db, user_id): the number of rows deleted
ClearHistory(user_id) ==
  /\ history' = ClearUserHistory(history, user_id)
  /\ hcall' = [op |-> "clear", user_id |-> user_id, history_id |-> 0,
               before |-> history, items |-> <<>>, found |-> FALSE,
               count |-> Len(history) - Len(history')]
  /\ UNCHANGED <<procVars, pc, reqVars, schemaVars>>
  /\ UNCHANGED thrVars

NextHistory ==
  \/ \E user_id \in Users, history_id \in HistoryIds : CreateEntry(user_id, history_id)
  \/ \E user_id \in Users, page \in 1..2, per_page \in 1..2 :
       ListHistory(user_id, page, per_page)
  \/ \E user_id \in Users, history_id \in HistoryIds : GetById(user_id, history_id)
  \/ \E user_id \in Users, history_id \in HistoryIds : DeleteEntry(user_id, history_id)
  \/ \E user_id \in Users : ClearHistory(user_id)

SpecHistory == InitHistory /\ [][NextHistory]_vars

\* ------------------------------------------------ get_schema_text, concurrently
\* get_schema_text called by the threads of Threads at the same time, one
\* step per read or write of shared state, while the catalog may change.
InitThreads ==
  /\ api_key_set = FALSE
  /\ env_model = ""
  /\ current_model = ""
  /\ llm_set = FALSE
  /\ db_chain_set = FALSE
  /\ SCHEMA_CACHE_TEXT = NoCache
  /\ catalog = 0
  /\ pc = "threads"
  /\ payload = <<>>
  /\ question = <<>>
  /\ prompt = NoPrompt
  /\ result = NoBundle
  /\ sql_query = <<>>
  /\ raw_db_result = NoValue
  /\ column_names = <<>>
  /\ formatted_rows = <<>>
  /\ retried = FALSE
  /\ exception = None
  /\ outcome = NoOutcome
  /\ response = NoResponse
  /\ genLog = <<>>
  /\ extracted = <<>>
  /\ execLog = <<>>
  /\ schemaCall = NoSchemaCall
  /\ saveLog = "none"
  /\ sop = "idle"
  /\ scall = NoCall
  /\ sreply = NoReply
  /\ fetched = FALSE
  /\ refreshed = NoText
  /\ history = <<>>
  /\ hcall = NoHistoryCall
  /\ thread = [t \in Threads |-> NoThread]
  /\ published = {}

ThreadQuiet == UNCHANGED <<api_key_set, env_model, current_model, llm_set, db_chain_set,
                           pc, reqVars, schemaVars, histVars>>

\* The catalog changes while the threads run.
ThreadAlterCatalog ==
  /\ catalog < MaxCatalogChanges
  /\ catalog' = catalog + 1
  /\ UNCHANGED <<SCHEMA_CACHE_TEXT, thrVars>>
  /\ ThreadQuiet

\* A thread enters get_schema_text(force_refresh).
Enter(t, force_refresh) ==
  /\ thread[t].pc \in {"idle", "done", "raised"}
  /\ thread' = [thread EXCEPT ![t] = [NoThread EXCEPT !.pc = "check",
                                                     !.force_refresh = force_refresh]]
  /\ UNCHANGED <<SCHEMA_CACHE_TEXT, catalog, published>>
  /\ ThreadQuiet

\* if SCHEMA_CACHE_TEXT is None or force_refresh:
CheckCache(t) ==
  /\ thread[t].pc = "check"
  /\ thread' = [thread EXCEPT ![t].pc =
                  IF ReadsCatalog(SCHEMA_CACHE_TEXT, thread[t].force_refresh)
                  THEN "inspect" ELSE "return"]
  /\ UNCHANGED <<SCHEMA_CACHE_TEXT, catalog, published>>
  /\ ThreadQuiet

\* inspect(get_engine()) and inspector.get_table_names(): the names of the
\* tables of the catalog as it is now; a failure raises out of the call.
Inspect(t, catalog_ok) ==
  /\ thread[t].pc = "inspect"
  /\ thread' = [thread EXCEPT ![t] =
                  IF catalog_ok
                  THEN [@ EXCEPT !.pc = "loop", !.names = Len(CatalogAt(catalog)),
                                 !.read = catalog]
                  ELSE [@ EXCEPT !.pc = "raised"]]
  /\ UNCHANGED <<SCHEMA_CACHE_TEXT, catalog, published>>
  /\ ThreadQuiet

\* One pass of the loop: inspector.get_columns(table_name) and
\* schema_parts.append(...).
LoopTable(t) ==
  /\ thread[t].pc = "loop"
  /\ Len(thread[t].schema_parts) < thread[t].names
  /\ LET k == Len(thread[t].schema_parts) + 1
         parts == Append(thread[t].schema_parts, TableLine(CatalogAt(catalog)[k]))
     IN /\ thread' = [thread EXCEPT ![t].schema_parts = parts]
        /\ SCHEMA_CACHE_TEXT' = CacheInLoop(SCHEMA_CACHE_TEXT, parts)
  /\ UNCHANGED <<catalog, published>>
  /\ ThreadQuiet

\* SCHEMA_CACHE_TEXT = "\n".join(schema_parts)
AssignCache(t) ==
  /\ thread[t].pc = "loop"
  /\ Len(thread[t].schema_parts) = thread[t].names
  /\ SCHEMA_CACHE_TEXT' = [cached |-> TRUE, text |-> JoinLines(thread[t].schema_parts)]
  /\ published' = published \cup {[text |-> JoinLines(thread[t].schema_parts),
                                    read |-> thread[t].read]}
  /\ thread' = [thread EXCEPT ![t].pc = "return"]
  /\ UNCHANGED catalog
  /\ ThreadQuiet

\* return SCHEMA_CACHE_TEXT
ReturnCache(t) ==
  /\ thread[t].pc = "return"
  /\ thread' = [thread EXCEPT ![t].pc = "done", ![t].returned = SCHEMA_CACHE_TEXT.text]
  /\ UNCHANGED <<SCHEMA_CACHE_TEXT, catalog, published>>
  /\ ThreadQuiet

NextThreads ==
  \/ ThreadAlterCatalog
  \/ \E t \in Threads, force_refresh \in BOOLEAN : Enter(t, force_refresh)
  \/ \E t \in Threads : CheckCache(t)
  \/ \E t \in Threads, catalog_ok \in BOOLEAN : Inspect(t, catalog_ok)
  \/ \E t \in Threads : LoopTable(t)
  \/ \E t \in Threads : AssignCache(t)
  \/ \E t \in Threads : ReturnCache(t)

SpecThreads == InitThreads /\ [][NextThreads]_vars

\* ------------------------------------------------ extract_sql_query, called alone
\* The function is also called on its own: bundles whose trace has zero to
\* MaxSteps entries (texts and dicts, with and without a statement) and
\* whose answer text holds no statement, a fenced one, a labelled one, a
\* plain one, or two of them; bundles with a missing key.
MaxSteps == 2

ExtractSteps ==
  { TextStep(Sp(<<"SELECT", "name", "FROM", "players">>)),
    TextStep(Sp(<<"No", "SQL", "here">>)),
    TextStep(Sp(<<"SELECT", "1">>) \o <<SEMI, SP>> \o Sp(<<"DELETE", "FROM", "players">>)),
    CmdStep(Sp(<<"SELECT", "ovr", "FROM", "players">>)),
    CmdStep(Sp(<<"DELETE", "FROM", "players">>)),
    CmdStep(Sp(<<"SELECT", "1">>)),
    CmdStep(<<>>),
    EmptyDictStep }

FencedAnswer == <<FENCESQL, SP>> \o Sp(<<"SELECT", "team", "FROM", "players">>) \o <<SP, FENCE>>
LabelledAnswer == <<"SQLQuery:", SP>> \o Sp(<<"SELECT", "nation", "FROM", "players">>)
PlainAnswer == Sp(<<"SELECT", "position", "FROM", "players">>)

ExtractAnswers ==
  { <<"x">>,
    FencedAnswer,
    LabelledAnswer,
    PlainAnswer,
    LabelledAnswer \o <<SP>> \o FencedAnswer,
    PlainAnswer \o <<NL>> \o LabelledAnswer,
    <<FENCESQL, SP>> \o Sp(<<"SELECT", "1">>) \o <<SP, FENCE>> }

ExtractBundles ==
  {Bundle(a, st) : a \in ExtractAnswers,
                   st \in UNION {[1..n -> ExtractSteps] : n \in 0..MaxSteps}}
  \cup {[hasResult |-> FALSE, result |-> <<>>, hasSteps |-> FALSE, steps |-> <<>>],
        [hasResult |-> TRUE, result |-> PlainAnswer, hasSteps |-> FALSE, steps |-> <<>>]}

InitExtract ==
  /\ api_key_set = FALSE
  /\ env_model = ""
  /\ current_model = ""
  /\ llm_set = FALSE
  /\ db_chain_set = FALSE
  /\ SCHEMA_CACHE_TEXT = NoCache
  /\ catalog = 0
  /\ pc = "extract"
  /\ payload = <<>>
  /\ question = <<>>
  /\ prompt = NoPrompt
  /\ result \in ExtractBundles
  /\ sql_query = <<>>
  /\ raw_db_result = NoValue
  /\ column_names = <<>>
  /\ formatted_rows = <<>>
  /\ retried = FALSE
  /\ exception = None
  /\ outcome = NoOutcome
  /\ response = NoResponse
  /\ genLog = <<>>
  /\ extracted = <<>>
  /\ execLog = <<>>
  /\ schemaCall = NoSchemaCall
  /\ saveLog = "none"
  /\ sop = "idle"
  /\ scall = NoCall
  /\ sreply = NoReply
  /\ fetched = FALSE
  /\ refreshed = NoText
  /\ history = <<>>
  /\ hcall = NoHistoryCall
  /\ thread = [t \in Threads |-> NoThread]
  /\ published = {}

\* sql_query = extract_sql_query(result)
ExtractSqlQueryCall ==
  /\ pc = "extract"
  /\ sql_query' = ExtractSqlQuery(result)
  /\ pc' = "extracted"
  /\ UNCHANGED <<raw_db_result, column_names, formatted_rows, procVars, payload, question,
                 prompt, result, retried, exception, outcome, response, genLog, extracted,
                 execLog, schemaCall, saveLog, schemaVars, histVars, thrVars>>

NextExtract == ExtractSqlQueryCall

SpecExtract == InitExtract /\ [][NextExtract]_vars

\* ------------------------------------------------------------- properties
\* handle_query has ended for the request in progress.
Finished == pc \in {"returned", "raised", "responded"}

\* The candidate of the last extraction, <<>> before the first one.
LastExtracted == IF extracted = <<>> THEN <<>> ELSE extracted[Len(extracted)]

\* C1: every statement handed to get_db().run begins, once trimmed and
\* upper-cased, with SELECT; a candidate that does not is never executed.
C1_OnlySelectExecuted ==
  \A i \in 1..Len(execLog) : StartsWithSelect(Strip(execLog[i].statement))

\* C1: a request whose first candidate was not a SELECT, whose second was,
\* and whose statement was run on the data store.
C1_Witness ==
  /\ pc = "returned"
  /\ retried
  /\ Len(execLog) = 1
  /\ outcome.status = "success"
  /\ outcome.raw_rows # <<>>

C3_AtMostTwoCalls ==
  /\ Len(genLog) <= 2
  /\ \A i, j \in 1..Len(genLog) : genLog[i].prompt = genLog[j].prompt
  /\ (extracted # <<>> /\ pc # "retry") =>
       Len(genLog) = IF NeedsRetry(extracted[1]) THEN 2 ELSE 1

\* C3: both extractions failed to give a SELECT candidate, and the request
\* has been answered after two calls.
C3_Witness ==
  /\ pc = "responded"
  /\ Len(extracted) = 2
  /\ NeedsRetry(extracted[2])
  /\ Len(genLog) = 2

\* C4: when the first extraction gives no SELECT candidate and the second
\* gives one, handle_query returns a success outcome whose query, answer
\* text and rows all come from the second bundle, after exactly two calls.
C4_RetryOutcomeIsSecond ==
  (Finished /\ Len(extracted) = 2 /\ ~NeedsRetry(extracted[2])) =>
    /\ Len(genLog) = 2
    /\ exception = None
    /\ outcome.status = "success"
    /\ outcome.sql_query = AddLimit(ExtractSqlQuery(genLog[2].bundle))
    /\ outcome.results = ResultText(genLog[2].bundle)
    /\ \E db \in DbOutcomes :
         outcome.raw_rows =
           CapRows(FormatRawRows(
             ExtractRawResults(genLog[2].bundle, outcome.sql_query, db),
             ExtractColumnNames(outcome.sql_query)))

\* C4: the second bundle gave a SELECT statement and a result label followed
\* by a number; handle_query raised instead of returning an outcome.
C4_Witness ==
  /\ pc = "raised"
  /\ exception = "TypeError"
  /\ Len(extracted) = 2
  /\ ~NeedsRetry(extracted[2])

C6_RowsFromOneExecution ==
  /\ Len(execLog) <= 1
  /\ (Finished /\ outcome.status = "success") =>
       /\ Len(execLog) = 1
       /\ outcome.raw_rows =
            CapRows(FormatRawRows(DirectResult(execLog[1].db),
                                  ExtractColumnNames(outcome.sql_query)))

\* C6: a run that reaches the execution step takes its rows from the first
\* result literal of the generation trace, with no data-store execution, when
\* the trace holds one; only otherwise does it run the validated statement,
\* exactly once.  No run executes more than one statement.
C6_RowsFromTraceFirst ==
  /\ Len(execLog) <= 1
  /\ (Finished /\ (outcome.status = "success" \/ exception = "TypeError")) =>
       LET trace == TraceResult(StepsOf(result))
       IN /\ Len(execLog) = IF trace # NoValue THEN 0 ELSE 1
          /\ trace = NoValue => execLog[1].statement = sql_query
          /\ outcome.status = "success" =>
               outcome.raw_rows =
                 CapRows(FormatRawRows(
                   IF trace # NoValue THEN trace ELSE DirectResult(execLog[1].db),
                   ExtractColumnNames(sql_query)))

\* C6: a success outcome whose rows came from the trace, nothing executed.
C6_Witness ==
  /\ pc = "returned"
  /\ outcome.status = "success"
  /\ outcome.raw_rows # <<>>
  /\ execLog = <<>>

\* get_db().run raised for the statement of the request in progress.
ExecutionFailed == execLog # <<>> /\ execLog[Len(execLog)].db.raised

\* C7: when get_db().run raises, the outcome has status error and carries
\* an error message; the statement is run once only.
C7_ExecutionErrorSurfaced ==
  (Finished /\ ExecutionFailed) =>
    /\ outcome.status = "error"
    /\ outcome.error_message # None
    /\ Len(execLog) = 1

\* C7: get_db().run raised and handle_query returned a success outcome.
C7_Witness ==
  /\ pc = "returned"
  /\ ExecutionFailed
  /\ outcome.status = "success"
  /\ outcome.raw_rows = <<>>

\* C8: when a db_chain.invoke call raises, on the first attempt or on the
\* retry, handle_query raises nothing: it returns an error outcome.
C8_GenerationErrorIsNoResult ==
  (Finished /\ \E i \in 1..Len(genLog) : genLog[i].raised) =>
    /\ exception = None
    /\ outcome.status = "error"
    /\ pc = "responded" => response.kind = "outcome"

\* C8: the retry call raised and the caller received HTTP 500.
C8_Witness ==
  /\ pc = "responded"
  /\ Len(genLog) = 2
  /\ genLog[2].raised
  /\ response.code = 500

\* The candidate left after the retry is empty or not a SELECT.
NoValidCandidate == Len(extracted) = 2 /\ NeedsRetry(extracted[2])

HasLimitClause(s) ==
  \E i \in 1..(Len(s) - 2) :
    IsKw(s[i], "LIMIT") /\ IsWs(s[i + 1]) /\ s[i + 2] \in {"3", "20", "50"}

\* C10: the statement that leaves the validation is the candidate itself if it
\* has a row-limit clause, and otherwise the candidate without its trailing
\* terminator followed by the default LIMIT; every statement run and every
\* query of a success outcome has a row-limit clause.
C10_LimitAlwaysPresent ==
  /\ pc = "execute" =>
       sql_query = IF HasLimitClause(LastExtracted) THEN LastExtracted
                   ELSE Strip(RStripSemi(LastExtracted)) \o DefaultLimit
  /\ \A i \in 1..Len(execLog) : HasLimitClause(execLog[i].statement)
  /\ (Finished /\ outcome.status = "success") => HasLimitClause(outcome.sql_query)

\* C10: a statement without a row-limit clause was run on the data store and
\* is the query of a success outcome.
C10_Witness ==
  /\ pc = "returned"
  /\ outcome.status = "success"
  /\ execLog # <<>>
  /\ ~HasLimitClause(execLog[1].statement)
  /\ outcome.sql_query = execLog[1].statement

\* The raw result the rows of the request in progress are built from: the
\* trace's result literal, or else what the one direct execution gave.
RawSource ==
  IF TraceResult(StepsOf(result)) # NoValue THEN TraceResult(StepsOf(result))
  ELSE IF execLog # <<>> THEN DirectResult(execLog[1].db)
  ELSE EmptyList

StatementThenResult(b) ==
  /\ b.hasSteps
  /\ Len(b.steps) = 2
  /\ b.steps[1].kind = "text"
  /\ StartsWithSelect(b.steps[1].text)
  /\ HasLimitClause(b.steps[1].text)
  /\ b.steps[1].text[Len(b.steps[1].text)] = SEMI
  /\ b.steps[2].kind = "text"
  /\ Len(b.steps[2].text) = 3
  /\ b.steps[2].text[1] = "SQLResult:"
  /\ Bracketed(<<b.steps[2].text[3]>>)

\* The tuples a list text denotes, for a reader of the text.
TuplesOfText(t) ==
  IF t = "[(Decimal('9.5'),)]" THEN <<<<"Decimal('9.5')">>>> ELSE RowsOfLiteral(t)

\* The first bundle of the request in progress has that shape.
FirstIsStatementThenResult ==
  /\ Finished
  /\ genLog # <<>>
  /\ ~genLog[1].raised
  /\ StatementThenResult(genLog[1].bundle)

C13_CachedTextServed ==
  /\ (schemaCall.called /\ schemaCall.before.cached) =>
       /\ schemaCall.reads = <<>>
       /\ schemaCall.returned = schemaCall.before.text
       /\ SCHEMA_CACHE_TEXT = schemaCall.before
       /\ prompt.schema = schemaCall.before.text
  /\ (schemaCall.called /\ refreshed.done) =>
       /\ schemaCall.reads = <<>>
       /\ schemaCall.returned = refreshed.text

\* C13: a request after a refresh got the refreshed text although the
\* catalog has changed since.
C13_Witness ==
  /\ schemaCall.called
  /\ refreshed.done
  /\ schemaCall.returned = refreshed.text
  /\ refreshed.text # SchemaTextOf(CatalogAt(catalog))

\* C14: once a structured schema has been returned, a get_schema_response()
\* call without force_refresh reads no catalog.
C14_StructuredServedFromStore ==
  (sop = "done" /\ scall.op = "schema" /\ scall.had) => scall.reads = <<>>

\* C14: a structured schema had been returned before, and GET /schema read
\* the catalog again and returned what it read.
C14_Witness ==
  /\ sop = "done"
  /\ scall.op = "schema"
  /\ scall.had
  /\ Len(scall.reads) = 1
  /\ sreply = [kind |-> "schema", tables |-> CatalogAt(scall.reads[1])]

\* C15: a refresh_schema_cache that returns a structured schema has read the
\* catalog once, and the stored text is the text of the schema it returns.
C15_OneReadBothProjections ==
  (sop = "done" /\ scall.op = "refresh" /\ sreply.kind = "schema") =>
    /\ Len(scall.reads) = 1
    /\ SCHEMA_CACHE_TEXT.text = SchemaTextOf(sreply.tables)

\* C15: the catalog changed between the two reads of a refresh: the stored
\* text and the structured schema returned describe different catalogs.
C15_Witness ==
  /\ sop = "done"
  /\ scall.op = "refresh"
  /\ sreply.kind = "schema"
  /\ Len(scall.reads) = 2
  /\ scall.reads[1] # scall.reads[2]
  /\ SCHEMA_CACHE_TEXT.text # SchemaTextOf(sreply.tables)

\* C16: a refresh_schema_cache that fails leaves the stored text as it was
\* before the call.
C16_FailedRefreshLeavesCache ==
  (sop = "done" /\ scall.op = "refresh" /\ sreply.kind = "error") =>
    SCHEMA_CACHE_TEXT = scall.before

\* C16: the second read of a refresh failed after the first had replaced a
\* stored text by another.
C16_Witness ==
  /\ sop = "done"
  /\ scall.op = "refresh"
  /\ sreply.kind = "error"
  /\ scall.before.cached
  /\ SCHEMA_CACHE_TEXT # scall.before

\* C17: when handle_query has returned an outcome and the history save
\* fails (at get_session(), at the entry, or at db.close()), the caller
\* receives exactly that outcome.
C17_SaveFailureLeavesResponse ==
  (pc = "responded" /\ saveLog \in {"session_error", "entry_error", "close_error"}) =>
    response = [kind |-> "outcome", code |-> 200, detail |-> "", body |-> outcome]

\* C17: handle_query returned a success outcome, get_session() raised, and
\* the caller received HTTP 500.
C17_Witness ==
  /\ pc = "responded"
  /\ saveLog = "session_error"
  /\ outcome.status = "success"
  /\ response.kind = "http_error"
  /\ response.code = 500

\* The question holds a keyword of the create, alter, drop, delete or
\* truncate class, in any letter case.
HasMutationKeyword(q) ==
  \E i \in 1..Len(q) :
    \E kw \in {"CREATE", "ALTER", "DROP", "DELETE", "TRUNCATE"} : InTok(kw, UpperTok(q[i]))

\* C18: a question that holds a data-mutation keyword is rejected with
\* HTTP 400 before handle_query is called, whatever the generation service
\* would return for it.
C18_MutationKeywordRejected ==
  (pc # "idle" /\ HasMutationKeyword(payload)) =>
    /\ pc = "responded"
    /\ response.kind = "http_error"
    /\ response.code = 400
    /\ genLog = <<>>

\* C18: the question "create table players" passed the guard, the generation
\* service was called and the caller received an outcome.
C18_Witness ==
  /\ pc = "responded"
  /\ payload = Sp(<<"create", "table", "players">>)
  /\ genLog # <<>>
  /\ response.kind = "outcome"

\* ------------------------------------------------------------------- C19
\* The read-query keyword occurs in some entry of the trace.
TraceHasSelect(b) ==
  \E k \in 1..Len(StepsOf(b)) : ContainsKw(StepsOf(b)[k].text, "SELECT")

\* The trace holds a dict entry whose 'sql_cmd' cleans to a non-empty text.
TraceHasCmd(b) ==
  \E k \in 1..Len(StepsOf(b)) :
    StepsOf(b)[k].kind = "dict" /\ StepsOf(b)[k].hasCmd
      /\ CleanSqlQuery(StepsOf(b)[k].text) # <<>>

\* The read-query keyword occurs in the trace or in the answer text.
BundleHasSelect(b) == TraceHasSelect(b) \/ ContainsKw(ResultText(b), "SELECT")

HasProjection(q) ==
  \E i \in 1..Len(q) : \E j \in (i + 3)..Len(q) :
    IsKw(q[i], "SELECT") /\ IsWs(q[i + 1]) /\ IsWs(q[j - 1]) /\ IsKw(q[j], "FROM")

\* The text between SELECT and the first FROM that closes a projection.
ProjectionText(q) == IF HasProjection(q) THEN SelectPart(q) ELSE <<>>

CommaCount(s) == Cardinality({k \in 1..Len(s) : s[k] = COMMA})

\* C20: extract_column_names returns the default list [rank, name, ovr,
\* position, nation, team] when the query is empty, has no SELECT ... FROM
\* projection or has the bare * projection; otherwise it returns a non-empty
\* list with one name for each comma-separated item of the projection; it
\* never raises.
C20_ColumnNames ==
  pc = "called" =>
    /\ exception = None
    /\ IF sql_query = <<>> \/ ~HasProjection(sql_query) \/ ProjectionText(sql_query) = <<"*">>
       THEN column_names = DefaultColumns
       ELSE /\ column_names # <<>>
            /\ Len(column_names) = CommaCount(ProjectionText(sql_query)) + 1

\* Reached: a projection of three items gave three names, none of them a
\* default.
C20_Witness ==
  /\ pc = "called"
  /\ sql_query = <<"SELECT", SP>>
                   \o ProjectionOf(<< <<"p", ".", "team">>, <<"ovr", SP, "as", SP, "rating">>,
                                   <<"*">> >>)
                   \o <<SP, "FROM", SP, "players">>
  /\ column_names = << <<"team">>, <<"rating">>, <<"*">> >>

\* ------------------------------------------------------------------- C21
\* The statement whose projection is the item list it.
StatementOf(it) == <<"SELECT", SP>> \o ProjectionOf(it) \o <<SP, "FROM", SP, "players">>

\* Positions of the word AS, in any letter case, between two blanks.
AsPositions(item) ==
  {k \in 1..(Len(item) - 2) :
     item[k] = SP /\ UpperTok(item[k + 1]) = "AS" /\ item[k + 2] = SP}

\* The name an item stands for: its alias when it is renamed with AS,
\* otherwise the column name without quotes and without qualification.
NameOfItem(item) ==
  IF AsPositions(item) # {}
  THEN Slice(item, Max(AsPositions(item)) + 3, Len(item))
  ELSE LET bare == SelectSeq(item, LAMBDA t : ~IsQuoteTok(t))
       IN AfterLastDot(bare)

\* C21: for a query with an explicit projection list, extract_column_names
\* returns the names in projection order: the alias of an item renamed with
\* AS in any letter case, otherwise the column name with quotes and table
\* qualification removed.
C21_NamesInProjectionOrder ==
  pc = "called" =>
    \A it \in ItemLists :
      (sql_query = StatementOf(it) /\ it # << <<"*">> >>)
        => column_names = [k \in 1..Len(it) |-> NameOfItem(it[k])]

\* Reached: an item renamed with AS in upper case is returned whole.
C21_Witness ==
  /\ pc = "called"
  /\ sql_query = StatementOf(<< <<"name">>, <<"ovr", SP, "AS", SP, "rating">> >>)
  /\ column_names = << <<"name">>, <<"ovr", SP, "AS", SP, "rating">> >>

\* ------------------------------------------------------------------- C22
\* Positions of a tuple that have a column: below min(tuple length, column
\* count).
Positions(row, cols) == 1..(IF Len(row) < Len(cols) THEN Len(row) ELSE Len(cols))

\* C22 as stated: format_raw_rows maps each raw tuple, in input order, to a
\* record in which columns[i] is bound to the tuple's i-th value for every
\* position i below min(tuple length, column count); values beyond the column
\* count are ignored; an empty tuple list or an empty column list yields an
\* empty list.
C22_EveryPositionBound ==
  pc = "formatted" =>
    LET raw == raw_db_result.rows
        cols == column_names
    IN IF raw = <<>> \/ cols = <<>> THEN formatted_rows = <<>>
       ELSE /\ Len(formatted_rows) = Len(raw)
            /\ \A k \in 1..Len(raw) :
                 /\ DOMAIN formatted_rows[k] = {cols[i] : i \in Positions(raw[k], cols)}
                 /\ \A i \in Positions(raw[k], cols) : formatted_rows[k][cols[i]] = raw[k][i]

\* C22 as the code has it: the same, except that a column name occurring at
\* several positions is bound once, to the value at the last of them; with
\* distinct column names every position is bound to its own value.
C22_LastPositionBound ==
  pc = "formatted" =>
    LET raw == raw_db_result.rows
        cols == column_names
    IN IF raw = <<>> \/ cols = <<>> THEN formatted_rows = <<>>
       ELSE /\ Len(formatted_rows) = Len(raw)
            /\ \A k \in 1..Len(raw) :
                 /\ DOMAIN formatted_rows[k] = {cols[i] : i \in Positions(raw[k], cols)}
                 /\ \A i \in Positions(raw[k], cols) :
                      (\A j \in Positions(raw[k], cols) : cols[j] = cols[i] => j <= i)
                        => formatted_rows[k][cols[i]] = raw[k][i]

\* Reached: three values against the columns name, ovr, name; the third
\* value replaced the first.
C22_Witness ==
  /\ pc = "formatted"
  /\ raw_db_result.rows = << <<7, 8, 9>> >>
  /\ column_names = << <<"name">>, <<"ovr">>, <<"name">> >>
  /\ formatted_rows = << [c \in {<<"name">>, <<"ovr">>} |-> IF c = <<"name">> THEN 9 ELSE 8] >>

\* ------------------------------------------------------------------- C23
\* The phrase occurs in the text as a whole word, in any letter case.
HasPhrase(s, phrase) == \E i \in 1..Len(s) : AliasAt(s, i, phrase)

\* C23: for every alias phrase A with canonical term C and every text that
\* contains A as a whole word in any letter case, apply_alias_mapping returns
\* a text that contains C and no longer contains A as a whole word.
C23_AliasReplaced ==
  pc = "mapped" =>
    \A k \in 1..Len(ALIASES) :
      HasPhrase(payload, ALIASES[k][1]) =>
        /\ HasPhrase(question, <<ALIASES[k][2]>>)
        /\ ~HasPhrase(question, ALIASES[k][1])

\* Reached: "team name" is replaced, and the later replacement of "club"
\* builds it again.
C23_Witness ==
  /\ pc = "mapped"
  /\ payload = Sp(<<"club", "name", "team", "name">>)
  /\ question = Sp(<<"team", "name", "team">>)

\* ------------------------------------------------------------------- C24
\* The call named a row that another user owns.
OthersRow ==
  \E k \in 1..Len(hcall.before) :
    hcall.before[k].id = hcall.history_id /\ hcall.before[k].user_id # hcall.user_id

\* C24: history operations are isolated per user.  Listing and fetching for
\* user A return only rows A owns; deleting one row and clearing for A remove
\* only rows A owns; an attempt by A on a row of user B returns None / False;
\* and the rows of every other user, hence that user's next listing, are as
\* before the call.
C24_HistoryIsolated ==
  hcall.op # "none" =>
    /\ \A k \in 1..Len(hcall.items) : hcall.items[k].user_id = hcall.user_id
    /\ \A u \in Users \ {hcall.user_id} :
         /\ OwnedBy(history, u) = OwnedBy(hcall.before, u)
         /\ \A page \in 1..2, per_page \in 1..2 :
              GetUserHistory(history, u, page, per_page)
                = GetUserHistory(hcall.before, u, page, per_page)
    /\ hcall.op \in {"list", "get"} => history = hcall.before
    /\ (hcall.op \in {"get", "delete"} /\ OthersRow) =>
         /\ ~hcall.found
         /\ hcall.items = <<>>
         /\ history = hcall.before
    /\ hcall.op = "delete" =>
         hcall.found = (\E k \in 1..Len(hcall.before) :
                          /\ hcall.before[k].id = hcall.history_id
                          /\ hcall.before[k].user_id = hcall.user_id)
    /\ hcall.op = "clear" =>
         /\ OwnedBy(history, hcall.user_id) = <<>>
         /\ hcall.count = Len(OwnedBy(hcall.before, hcall.user_id))

\* Reached: A tried to delete a row of B while owning a row of its own;
\* nothing was deleted.
C24_Witness ==
  /\ hcall.op = "delete"
  /\ hcall.user_id = "A"
  /\ OthersRow
  /\ OwnedBy(hcall.before, "A") # <<>>
  /\ ~hcall.found
  /\ history = hcall.before

\* ------------------------------------------------------------------- C25
\* The complete text of the catalog read r.
CompleteText(r) == SchemaTextOf(CatalogAt(r))

\* C25: under any interleaving of concurrent readers and refreshes,
\* get_schema_text never returns a partially built text.  Every text assigned
\* to the cache is the complete text of the one catalog read it was built
\* from; every value returned is one of those texts; and the cache, once
\* set, holds one of them, so it does when all refreshes have finished.
C25_NoPartialText ==
  /\ \A p \in published : p.text = CompleteText(p.read)
  /\ \A t \in Threads :
       thread[t].pc = "done" => \E p \in published : thread[t].returned = p.text
  /\ SCHEMA_CACHE_TEXT.cached => \E p \in published : SCHEMA_CACHE_TEXT.text = p.text

\* Reached: two refreshes ran at the same time on different catalog states;
\* both have returned, one of them the text the other built.
C25_Witness ==
  /\ \A t \in Threads : thread[t].pc = "done" /\ thread[t].force_refresh
  /\ thread[1].read # thread[2].read
  /\ thread[1].returned = thread[2].returned
  /\ thread[1].returned = CompleteText(thread[2].read)
  /\ SCHEMA_CACHE_TEXT.text = CompleteText(thread[2].read)

\* ------------------------------------------------------------------- C26
\* What each strategy yields for a bundle, the empty text when it fails.
TextEntries(b) == SelectSeq(StepsOf(b), LAMBDA st : st.kind = "text")
DictEntries(b) == SelectSeq(StepsOf(b), LAMBDA st : st.kind = "dict")

RECURSIVE FirstCandidate(_)
FirstCandidate(entries) ==
  IF entries = <<>> THEN <<>>
  ELSE IF StepCandidate(entries[1]) # <<>> THEN RStripSemi(StepCandidate(entries[1]))
  ELSE FirstCandidate(Tail(entries))

FencedBlock(s) ==
  IF MarkdownStarts(s) # {} THEN RStripSemi(CleanSqlQuery(MarkdownGroup(s))) ELSE <<>>

LabelledPrefix(s) ==
  IF LabelStarts(s) # {} THEN RStripSemi(CleanSqlQuery(LabelGroup(s))) ELSE <<>>

GenericScan(s) ==
  IF SelectStarts(s) # {} THEN RStripSemi(CleanSqlQuery(GenericGroup(s))) ELSE <<>>

\* The first non-empty text of a list of texts, the empty text if none.
RECURSIVE FirstNonEmpty(_)
FirstNonEmpty(texts) ==
  IF texts = <<>> THEN <<>>
  ELSE IF texts[1] # <<>> THEN texts[1]
  ELSE FirstNonEmpty(Tail(texts))

\* C26 as stated: the strategies are tried in the order text trace entries,
\* structured step records, fenced block, labelled prefix, generic scan, and
\* the first that succeeds gives the result; a text entry with a valid
\* statement wins over a structured record wherever the two are in the trace.
C26_TextEntriesFirst ==
  pc = "extracted" =>
    sql_query = FirstNonEmpty(<<FirstCandidate(TextEntries(result)),
                                FirstCandidate(DictEntries(result)),
                                FencedBlock(Serialize(result)),
                                LabelledPrefix(Serialize(result)),
                                GenericScan(Serialize(result))>>)

\* C26 as the code has it: text entries and structured records are tried
\* together, in one pass over the trace in trace order, and the first entry
\* that yields a candidate gives the result, whichever kind it is; only
\* then come the fenced block, the labelled prefix and the generic scan of
\* the serialized bundle, in this order.
C26_TraceOrderFirst ==
  pc = "extracted" =>
    sql_query = FirstNonEmpty(<<FirstCandidate(StepsOf(result)),
                                FencedBlock(Serialize(result)),
                                LabelledPrefix(Serialize(result)),
                                GenericScan(Serialize(result))>>)

\* Reached: a structured record placed before a text entry with a valid
\* statement gave the result.
C26_Witness ==
  /\ pc = "extracted"
  /\ StepsOf(result) = <<CmdStep(Sp(<<"SELECT", "ovr", "FROM", "players">>)),
                         TextStep(Sp(<<"SELECT", "name", "FROM", "players">>))>>
  /\ sql_query = Sp(<<"SELECT", "ovr", "FROM", "players">>)

\* ------------------------------------------------------------------- C27
\* C27: every non-empty text extract_sql_query returns begins with SELECT
\* (in any letter case) and contains FROM, whichever strategy produced it.
C27_ReturnedTextIsSelectFrom ==
  (pc = "extracted" /\ sql_query # <<>>) =>
    (StartsWithSelect(sql_query) /\ ContainsKw(sql_query, "FROM"))

\* Reached: the statement field of a structured record, which is neither a
\* SELECT nor checked for its shape, was returned as it stood.
C27_Witness ==
  /\ pc = "extracted"
  /\ StepsOf(result) # <<>>
  /\ StepsOf(result)[1] = CmdStep(Sp(<<"DELETE", "FROM", "players">>))
  /\ sql_query = Sp(<<"DELETE", "FROM", "players">>)

\* ------------------------------------------------------------------- C28
\* The request has built its prompt and has not been answered yet.
PromptBuilt == pc \in {"invoke", "retry", "validate", "execute", "returned"}

\* C28: build_schema_aware_prompt is a function of its two arguments alone:
\* the prompt a request built is the prompt a call with the same question and
\* the same schema text returns at any later point of the process, whatever
\* ran in between (the first initialisation of the generation chain
\* included).
C28_PromptDependsOnArgumentsOnly ==
  PromptBuilt =>
    prompt = BuildSchemaAwarePrompt(prompt.question, prompt.schema,
                                    GetCurrentModel(current_model))

\* Reached: with no model configured the request built its prompt for the
\* model "unknown", and the chain initialisation that followed set the model
\* to gpt-4o-mini, for which the same two arguments give another prompt.
C28_Witness ==
  /\ pc = "invoke"
  /\ env_model = ""
  /\ current_model = "gpt-4o-mini"
  /\ prompt.model_specific = ""
  /\ BuildSchemaAwarePrompt(prompt.question, prompt.schema,
                            GetCurrentModel(current_model)).model_specific # ""

\* ------------------------------------------------------------------- C29
\* No statement terminator of s is followed by further statement text.
SingleStatement(s) ==
  \A i \in 1..Len(s) : s[i] = SEMI => Strip(Slice(s, i + 1, Len(s))) = <<>>

\* C29: every statement handle_query passes to the data store is a single
\* statement: no terminator in it is followed by further statement text.
C29_SingleStatementExecuted ==
  \A i \in 1..Len(execLog) : SingleStatement(execLog[i].statement)

\* Reached: the text entry with a second statement after the terminator was
\* extracted whole, got the limit clause and was passed to the data store.
C29_Witness ==
  /\ execLog # <<>>
  /\ execLog[1].statement = StmtTwo \o DefaultLimit
  /\ ~SingleStatement(execLog[1].statement)

\* ------------------------------------------------------------------- C30
\* Every db_chain.invoke call of the request returned a bundle.
AllCallsReturned == genLog # <<>> /\ \A i \in 1..Len(genLog) : ~genLog[i].raised

\* C30: whatever bundles the generation calls return, handle_query ends by
\* returning an outcome with status success or error; it does not raise
\* because of what a bundle holds.
C30_BundleNeverRaises ==
  (AllCallsReturned /\ pc \in {"returned", "raised"}) =>
    /\ pc = "returned"
    /\ exception = None
    /\ outcome.status \in {"success", "error"}

\* Reached: the first bundle held a SELECT statement and an integer after
\* the result label; format_raw_rows raised on it and handle_query returned
\* no outcome.
C30_Witness ==
  /\ pc = "raised"
  /\ exception = "TypeError"
  /\ Len(genLog) = 1
  /\ ~genLog[1].raised
  /\ raw_db_result.kind = "int"
  /\ outcome = NoOutcome


====
